---- MODULE Spec2Model ----
(***************************************************************************)
(* Field reconciliation and validation core of the invoice extraction      *)
(* pipeline: FieldExtractor (src/utils/field_extractors.py), Validator     *)
(* (src/utils/validation.py) and OutputFormatter                           *)
(* (src/utils/output_formatter.py), driven as in                           *)
(* DocumentAIPipeline.process_document (src/execution.py).                 *)
(*                                                                         *)
(* Representation.  A Python str is a tuple of one-character strings.  A   *)
(* Python number (int or float) is an exact rational [t |-> "num", n, d]   *)
(* in lowest terms.  None, str, number, list and dict values carry a tag   *)
(* t so that isinstance() and truthiness can be modelled.  A Python dict   *)
(* is a function from key names to values; a missing key is a key outside  *)
(* its DOMAIN.  A formatted message is its template with its arguments.    *)
(***************************************************************************)
EXTENDS Integers, Sequences, FiniteSets, TLC

VARIABLES dealer_master, asset_master, ocr_result, vlm_result,
          detection_result, fields, validated, output, pc, batch

vars == <<dealer_master, asset_master, ocr_result, vlm_result,
          detection_result, fields, validated, output, pc, batch>>

----------------------------------------------------------------------------
(* Python values *)

None == [t |-> "none"]

RECURSIVE GCD(_, _)
GCD(a, b) == IF b = 0 THEN a ELSE GCD(b, a % b)

Abs(x) == IF x < 0 THEN -x ELSE x

\* the number n/d (d > 0), in lowest terms
Num(n, d) == LET g == GCD(Abs(n), d) IN [t |-> "num", n |-> n \div g, d |-> d \div g]

IntNum(k) == Num(k, 1)

Str(s) == [t |-> "str", s |-> s]

Bool(b) == [t |-> "bool", b |-> b]

List(l) == [t |-> "list", l |-> l]

Dict(d) == [t |-> "dict", d |-> d]

EmptyDict == <<>>

IsNum(x) == x.t = "num"

Leq(a, b) == a.n * b.d <= b.n * a.d

Less(a, b) == a.n * b.d < b.n * a.d

\* x / k for a number x and a positive integer k
DivBy(x, k) == Num(x.n, x.d * k)

\* truncation toward zero, as int() does on a number
Trunc(x) == IF x.n >= 0 THEN IntNum(x.n \div x.d) ELSE IntNum(-((-x.n) \div x.d))

\* bool(x): None, 0, "", [] and {} are false
Truthy(x) ==
    CASE x.t = "none" -> FALSE
      [] x.t = "num"  -> x.n # 0
      [] x.t = "str"  -> Len(x.s) > 0
      [] x.t = "bool" -> x.b
      [] x.t = "list" -> Len(x.l) > 0
      [] x.t = "dict" -> DOMAIN x.d # {}

\* d.get(k, default)
Get(d, k, default) == IF k \in DOMAIN d THEN d[k] ELSE default

\* an f-string: its template and the values formatted into it
Msg(template, args) == [msg |-> template, args |-> args]

----------------------------------------------------------------------------
(* Characters and str methods *)

LowerLetters == <<"a", "b", "c", "d", "e", "f", "g", "h", "i", "j", "k", "l", "m",
                  "n", "o", "p", "q", "r", "s", "t", "u", "v", "w", "x", "y", "z">>

UpperLetters == <<"A", "B", "C", "D", "E", "F", "G", "H", "I", "J", "K", "L", "M",
                  "N", "O", "P", "Q", "R", "S", "T", "U", "V", "W", "X", "Y", "Z">>

Digits == <<"0", "1", "2", "3", "4", "5", "6", "7", "8", "9">>

Range(s) == {s[i] : i \in DOMAIN s}

IsDigit(c) == c \in Range(Digits)

DigitVal(c) == (CHOOSE i \in DOMAIN Digits : Digits[i] = c) - 1

IsSpace(c) == c \in {" ", "\t", "\n", "\r"}

IsWordChar(c) == c \in Range(LowerLetters) \cup Range(UpperLetters) \cup Range(Digits) \cup {"_"}

LowerChar(c) ==
    IF c \in Range(UpperLetters)
    THEN LowerLetters[CHOOSE i \in DOMAIN UpperLetters : UpperLetters[i] = c]
    ELSE c

\* s.lower()
Lower(s) == [i \in DOMAIN s |-> LowerChar(s[i])]

\* s[i:] with a 1-based i
From(s, i) == SubSeq(s, i, Len(s))

\* s.startswith(p) at 1-based position i
MatchAt(s, i, p) == i + Len(p) - 1 <= Len(s) /\ SubSeq(s, i, i + Len(p) - 1) = p

\* p in s
Contains(s, p) == \E i \in 1..(Len(s) + 1) : MatchAt(s, i, p)

RECURSIVE LStrip(_)
LStrip(s) == IF s # <<>> /\ IsSpace(Head(s)) THEN LStrip(Tail(s)) ELSE s

RECURSIVE RStrip(_)
RStrip(s) == IF s # <<>> /\ IsSpace(s[Len(s)]) THEN RStrip(SubSeq(s, 1, Len(s) - 1)) ELSE s

\* s.strip()
Strip(s) == RStrip(LStrip(s))

\* s.split(sep) for a one-character sep: the pieces between the separators
RECURSIVE SplitOn(_, _, _, _)
SplitOn(s, sep, cur, acc) ==
    IF s = <<>> THEN Append(acc, cur)
    ELSE IF Head(s) = sep THEN SplitOn(Tail(s), sep, <<>>, Append(acc, cur))
    ELSE SplitOn(Tail(s), sep, Append(cur, Head(s)), acc)

SplitLines(text) == SplitOn(text, "\n", <<>>, <<>>)

\* s.split(): the maximal runs of non-whitespace
RECURSIVE SplitWs(_, _, _)
SplitWs(s, cur, acc) ==
    IF s = <<>> THEN (IF cur = <<>> THEN acc ELSE Append(acc, cur))
    ELSE IF IsSpace(Head(s))
         THEN SplitWs(Tail(s), <<>>, IF cur = <<>> THEN acc ELSE Append(acc, cur))
         ELSE SplitWs(Tail(s), Append(cur, Head(s)), acc)

\* sep.join(parts)
RECURSIVE Join(_, _)
Join(parts, sep) ==
    IF parts = <<>> THEN <<>>
    ELSE IF Len(parts) = 1 THEN parts[1]
    ELSE parts[1] \o sep \o Join(Tail(parts), sep)

\* seq[:k]
Take(seq, k) == SubSeq(seq, 1, IF Len(seq) < k THEN Len(seq) ELSE k)

Max2(a, b) == IF a >= b THEN a ELSE b

----------------------------------------------------------------------------
(* rapidfuzz: fuzz.ratio and process.extractOne, as FieldExtractor calls them *)

\* one row of the longest-common-subsequence table: entry j + 1 is the LCS
\* length of the prefix of a ending in c with the first j characters of b;
\* acc holds the entries for 0..Len(acc) - 1
RECURSIVE LCSRow(_, _, _, _)
LCSRow(prev, c, b, acc) ==
    LET j == Len(acc) IN
    IF j > Len(b) THEN acc
    ELSE LCSRow(prev, c, b,
                Append(acc, IF c = b[j] THEN prev[j] + 1
                            ELSE Max2(prev[j + 1], acc[j])))

RECURSIVE LCSRows(_, _, _, _)
LCSRows(a, b, i, row) ==
    IF i > Len(a) \/ Len(row) = 0 THEN row[Len(b) + 1]
    ELSE LCSRows(a, b, i + 1, LCSRow(row, a[i], b, <<0>>))

LCSLen(a, b) == LCSRows(a, b, 1, [j \in 1..(Len(b) + 1) |-> 0])

\* fuzz.ratio(s1, s2): the normalised Indel similarity, 100 * 2 * LCS / (|s1| + |s2|)
ratio(s1, s2) ==
    IF Len(s1) + Len(s2) = 0 THEN IntNum(100)
    ELSE Num(200 * LCSLen(s1, s2), Len(s1) + Len(s2))

\* process.extractOne(query, choices, scorer=fuzz.ratio): the first choice of
\* the highest score as (choice, score), None for an empty list
RECURSIVE extractOneFrom(_, _, _, _)
extractOneFrom(query, choices, i, best) ==
    IF i > Len(choices) THEN best
    ELSE LET score == ratio(query, choices[i]) IN
         extractOneFrom(query, choices, i + 1,
                        IF best = None \/ Less(best.score, score)
                        THEN [t |-> "match", choice |-> choices[i], score |-> score]
                        ELSE best)

extractOne(query, choices) == extractOneFrom(query, choices, 1, None)

----------------------------------------------------------------------------
(* FieldExtractor: dealer name *)

DealerKeywords == <<"motors", "auto", "tractors", "pvt", "ltd", "limited", "company", "dealer">>

\* the 1-character strings of a keyword
Chars(w) ==
    CASE w = "motors"   -> <<"m", "o", "t", "o", "r", "s">>
      [] w = "auto"     -> <<"a", "u", "t", "o">>
      [] w = "tractors" -> <<"t", "r", "a", "c", "t", "o", "r", "s">>
      [] w = "pvt"      -> <<"p", "v", "t">>
      [] w = "ltd"      -> <<"l", "t", "d">>
      [] w = "limited"  -> <<"l", "i", "m", "i", "t", "e", "d">>
      [] w = "company"  -> <<"c", "o", "m", "p", "a", "n", "y">>
      [] w = "dealer"   -> <<"d", "e", "a", "l", "e", "r">>
      [] w = "mahindra" -> <<"m", "a", "h", "i", "n", "d", "r", "a">>
      [] w = "john deere" -> <<"j", "o", "h", "n", " ", "d", "e", "e", "r", "e">>
      [] w = "sonalika" -> <<"s", "o", "n", "a", "l", "i", "k", "a">>
      [] w = "tafe"     -> <<"t", "a", "f", "e">>
      [] w = "new holland" -> <<"n", "e", "w", " ", "h", "o", "l", "l", "a", "n", "d">>
      [] w = "kubota"   -> <<"k", "u", "b", "o", "t", "a">>
      [] w = "massey ferguson" -> <<"m", "a", "s", "s", "e", "y", " ", "f", "e", "r", "g", "u", "s", "o", "n">>
      [] w = "farmtrac" -> <<"f", "a", "r", "m", "t", "r", "a", "c">>
      [] w = "powertrac" -> <<"p", "o", "w", "e", "r", "t", "r", "a", "c">>

\* re.sub(r'[^\w\s]', ' ', line)
SubPunct(line) == [i \in DOMAIN line |->
                     IF IsWordChar(line[i]) \/ IsSpace(line[i]) THEN line[i] ELSE " "]

\* ' '.join(cleaned.split())
Collapse(s) == Join(SplitWs(s, <<>>, <<>>), <<" ">>)

RECURSIVE dealer_candidates_of(_, _)
dealer_candidates_of(lines, acc) ==
    IF lines = <<>> THEN acc
    ELSE LET line == Strip(Head(lines))
             cleaned == Collapse(SubPunct(line))
         IN  dealer_candidates_of(Tail(lines),
                IF (\E k \in DOMAIN DealerKeywords :
                        Contains(Lower(line), Chars(DealerKeywords[k])))
                   /\ Len(cleaned) > 5
                THEN Append(acc, cleaned) ELSE acc)

extract_dealer_candidates(text) == Take(dealer_candidates_of(SplitLines(text), <<>>), 5)

\* a variant of Candidates that puts the text candidates first
Candidates_text_first(vlm_value, text_candidates) ==
    text_candidates \o (IF Truthy(vlm_value) THEN <<vlm_value.s>> ELSE <<>>)

\* candidates = [vlm value if truthy] + text candidates
Candidates(vlm_value, text_candidates) ==
    (IF Truthy(vlm_value) THEN <<vlm_value.s>> ELSE <<>>) \o text_candidates

\* a variant of dealer_step that stops at the first candidate clearing 90
dealer_step_first_acceptable(best, candidate, result) ==
    IF Leq(IntNum(90), best.score) THEN best
    ELSE IF candidate # <<>> /\ result # None /\ Less(best.score, result.score)
    THEN [match |-> Str(result.choice), score |-> result.score,
          candidate |-> Str(candidate)]
    ELSE best

\* one iteration of the loop of extract_dealer_name, result being what
\* extractOne returned for the candidate
dealer_step(best, candidate, result) ==
    IF candidate # <<>> /\ result # None /\ Less(best.score, result.score)
    THEN [match |-> Str(result.choice), score |-> result.score,
          candidate |-> Str(candidate)]
    ELSE best

\* the loop of extract_dealer_name: the best (match, score, candidate) so far
RECURSIVE dealer_best(_, _, _, _)
dealer_best(candidates, master, i, best) ==
    IF i > Len(candidates) THEN best
    ELSE dealer_best(candidates, master, i + 1,
                     dealer_step(best, candidates[i], extractOne(candidates[i], master)))

\* a variant of DealerStart whose starting score is the highest score
DealerStart_certain == [match |-> None, score |-> IntNum(100), candidate |-> None]

DealerStart == [match |-> None, score |-> IntNum(0), candidate |-> None]

\* a variant of dealer_result that accepts from 85 on
dealer_result_from_85(best) ==
    IF Leq(IntNum(85), best.score)
    THEN Dict([value |-> best.match,
               confidence |-> DivBy(best.score, 100),
               explanation |-> Msg("Fuzzy matched '{}' to '{}' with {}% similarity",
                                   <<best.candidate, best.match, best.score>>)])
    ELSE Dict([value |-> None,
               confidence |-> IntNum(0),
               explanation |-> Msg("No dealer match found (best: {}%)", <<best.score>>)])

\* a variant of dealer_result that returns the candidate in place of the
\* reference entry
dealer_result_returns_candidate(best) ==
    IF Leq(IntNum(90), best.score)
    THEN Dict([value |-> best.candidate,
               confidence |-> DivBy(best.score, 100),
               explanation |-> Msg("Fuzzy matched '{}' to '{}' with {}% similarity",
                                   <<best.candidate, best.match, best.score>>)])
    ELSE Dict([value |-> None,
               confidence |-> IntNum(0),
               explanation |-> Msg("No dealer match found (best: {}%)", <<best.score>>)])

\* the threshold check that ends extract_dealer_name
dealer_result(best) ==
    IF Leq(IntNum(90), best.score)
    THEN Dict([value |-> best.match,
               confidence |-> DivBy(best.score, 100),
               explanation |-> Msg("Fuzzy matched '{}' to '{}' with {}% similarity",
                                   <<best.candidate, best.match, best.score>>)])
    ELSE Dict([value |-> None,
               confidence |-> IntNum(0),
               explanation |-> Msg("No dealer match found (best: {}%)", <<best.score>>)])

extract_dealer_name(ocr_text, vlm, master) ==
    dealer_result(dealer_best(Candidates(Get(vlm, "dealer_name", None),
                                         extract_dealer_candidates(ocr_text)),
                              master, 1, DealerStart))

----------------------------------------------------------------------------
(* FieldExtractor: model name *)

Brands == <<"mahindra", "john deere", "sonalika", "tafe", "new holland",
            "kubota", "massey ferguson", "farmtrac", "powertrac">>

RECURSIVE model_candidates_of(_, _)
model_candidates_of(lines, acc) ==
    IF lines = <<>> THEN acc
    ELSE model_candidates_of(Tail(lines),
            IF \E k \in DOMAIN Brands : Contains(Lower(Head(lines)), Chars(Brands[k]))
            THEN Append(acc, Strip(Head(lines))) ELSE acc)

extract_model_candidates(text) == Take(model_candidates_of(SplitLines(text), <<>>), 10)

NoModel == Dict([value |-> None, confidence |-> IntNum(0),
                 explanation |-> Msg("No model match found in asset master", <<>>)])

\* a variant of model_step whose similarity branch returns the candidate
model_step_returns_candidate(candidate, master, result) ==
    IF candidate = <<>> THEN None
    ELSE IF candidate \in Range(master)
    THEN Dict([value |-> Str(candidate), confidence |-> IntNum(1),
               explanation |-> Msg("Exact match found: {}", <<Str(candidate)>>)])
    ELSE IF result # None /\ Leq(IntNum(95), result.score)
    THEN Dict([value |-> Str(candidate),
               confidence |-> DivBy(result.score, 100),
               explanation |-> Msg("Matched '{}' to '{}' ({}%)",
                                   <<Str(candidate), Str(result.choice), result.score>>)])
    ELSE None

\* what one iteration of the loop of extract_model_name returns, result being
\* what extractOne returned for the candidate; None when the loop goes on
model_step(candidate, master, result) ==
    IF candidate = <<>> THEN None
    ELSE IF candidate \in Range(master)
    THEN Dict([value |-> Str(candidate), confidence |-> IntNum(1),
               explanation |-> Msg("Exact match found: {}", <<Str(candidate)>>)])
    ELSE IF result # None /\ Leq(IntNum(95), result.score)
    THEN Dict([value |-> Str(result.choice),
               confidence |-> DivBy(result.score, 100),
               explanation |-> Msg("Matched '{}' to '{}' ({}%)",
                                   <<Str(candidate), Str(result.choice), result.score>>)])
    ELSE None

\* of two results, the one of the higher confidence, the earlier on a tie
BetterModel(returned, r) ==
    IF r # None /\ (returned = None \/ Less(returned.d.confidence, r.d.confidence))
    THEN r ELSE returned

\* a variant of model_scan that keeps the best result over all candidates
RECURSIVE model_scan_best_overall(_, _, _, _)
model_scan_best_overall(candidates, master, i, returned) ==
    IF i > Len(candidates) THEN (IF returned = None THEN NoModel ELSE returned)
    ELSE model_scan_best_overall(candidates, master, i + 1,
            BetterModel(returned,
                        model_step(candidates[i], master, extractOne(candidates[i], master))))

\* the loop of extract_model_name from candidate i on: the first candidate
\* that is in the list or matches at 95 or more returns
RECURSIVE model_scan(_, _, _, _)
model_scan(candidates, master, i, returned) ==
    IF returned # None THEN returned
    ELSE IF i > Len(candidates) THEN NoModel
    ELSE model_scan(candidates, master, i + 1,
                    model_step(candidates[i], master, extractOne(candidates[i], master)))

extract_model_name(ocr_text, vlm, master) ==
    model_scan(Candidates(Get(vlm, "model_name", None), extract_model_candidates(ocr_text)),
               master, 1, None)

----------------------------------------------------------------------------
(* Conversions that can raise *)

Raise(exc) == [t |-> "raise", exc |-> exc]

IsRaise(x) == "t" \in DOMAIN x /\ x.t = "raise"

RECURSIVE DigitsToInt(_, _)
DigitsToInt(s, acc) ==
    IF s = <<>> THEN acc ELSE DigitsToInt(Tail(s), 10 * acc + DigitVal(Head(s)))

AllDigits(s) == \A i \in DOMAIN s : IsDigit(s[i])

\* the text of a decimal literal as a number: digits, then optionally a point
\* and digits, with at least one digit; None when s is no such literal
RECURSIVE Pow10(_)
Pow10(k) == IF k = 0 THEN 1 ELSE 10 * Pow10(k - 1)

DecimalParts(whole, frac, points) ==
    IF points > 1 \/ ~AllDigits(whole) \/ ~AllDigits(frac) \/ Len(whole) + Len(frac) = 0
    THEN None
    ELSE Num(DigitsToInt(whole, 0) * Pow10(Len(frac)) + DigitsToInt(frac, 0),
             Pow10(Len(frac)))

\* the index of the first "." of s, Len(s) + 1 when it has none
RECURSIVE PointAt(_, _)
PointAt(s, i) == IF i > Len(s) \/ s[i] = "." THEN i ELSE PointAt(s, i + 1)

DecimalAt(s, dot) ==
    DecimalParts(SubSeq(s, 1, dot - 1), SubSeq(s, dot + 1, Len(s)),
                 Cardinality({i \in DOMAIN s : s[i] = "."}))

DecimalLiteral(s) == DecimalAt(s, PointAt(s, 1))

OrValueError(v) == IF v = None THEN Raise("ValueError") ELSE v

\* float(x): a number as it is, a str parsed as a decimal literal (ValueError
\* when it is none), TypeError for None, a list or a dict
PyFloat(x) ==
    CASE x.t = "num" -> x
      [] x.t = "bool" -> IntNum(IF x.b THEN 1 ELSE 0)
      [] x.t = "str" -> OrValueError(DecimalLiteral(Strip(x.s)))
      [] OTHER -> Raise("TypeError")

IntLiteral(s) == IF s # <<>> /\ AllDigits(s) THEN IntNum(DigitsToInt(s, 0))
                 ELSE Raise("ValueError")

\* int(x): a number truncated toward zero, a str of digits parsed (ValueError
\* for any other str, "45.5" included), TypeError for None, a list or a dict
PyInt(x) ==
    CASE x.t = "num" -> Trunc(x)
      [] x.t = "bool" -> IntNum(IF x.b THEN 1 ELSE 0)
      [] x.t = "str" -> IntLiteral(Strip(x.s))
      [] OTHER -> Raise("TypeError")

----------------------------------------------------------------------------
(* Regular expressions of the numeric extractors, matched with re.IGNORECASE.
   Every pattern here is deterministic: each greedy piece is followed by a
   piece that cannot start with what the greedy piece consumes, so one
   left-to-right attempt per start position decides the match. *)

RECURSIVE DigitsEnd(_, _)
DigitsEnd(s, i) == IF i <= Len(s) /\ IsDigit(s[i]) THEN DigitsEnd(s, i + 1) ELSE i

\* \s*
RECURSIVE SkipSpace(_, _)
SkipSpace(s, i) == IF i <= Len(s) /\ IsSpace(s[i]) THEN SkipSpace(s, i + 1) ELSE i

\* a literal, ignoring case; the index after it, or 0
Lit(s, i, w) == IF i + Len(w) - 1 <= Len(s) /\ Lower(SubSeq(s, i, i + Len(w) - 1)) = w
                THEN i + Len(w) ELSE 0

\* [:\-]?
OptSep(s, i) == IF i <= Len(s) /\ s[i] \in {":", "-"} THEN i + 1 ELSE i

HP == <<"h", "p">>

HorseWord == <<"h", "o", "r", "s", "e">>

PowerWord == <<"p", "o", "w", "e", "r">>

\* horse\s*power, the index h being the one after "horse", or 0
PowerAfter(s, h) == IF h = 0 THEN 0 ELSE Lit(s, SkipSpace(s, h), PowerWord)

\* the unit of hp_patterns[k], k = 1..3, at i: the index after it, or 0
UnitAt(s, i, k) ==
    IF k \in {1, 2} THEN Lit(s, i, HP) ELSE PowerAfter(s, Lit(s, i, HorseWord))

\* a match of a group s[g..j-1] that ends before e; None when the group is
\* empty or the rest of the pattern failed (e = 0)
Matched(s, g, j, e) ==
    IF g # 0 /\ j > g /\ e # 0 THEN [group |-> SubSeq(s, g, j - 1), end |-> e] ELSE None

\* (\d+)\s*UNIT with the digits s[i..j-1]
NumberUnit(s, i, j, k) == Matched(s, i, j, UnitAt(s, SkipSpace(s, j), k))

\* \s*[:\-]?\s*: the index after it
SepAt(s, w) == SkipSpace(s, OptSep(s, SkipSpace(s, w)))

DigitsFrom(s, g) == Matched(s, g, DigitsEnd(s, g), DigitsEnd(s, g))

\* WORD\s*[:\-]?\s*(\d+), the index w being the one after the word, or 0
WordNumber(s, w) == IF w = 0 THEN None ELSE DigitsFrom(s, SepAt(s, w))

\* one attempt of hp_patterns[k] at i: [group, end], or None
HpMatchAt(s, i, k) ==
    IF k \in {1, 2, 3}
    THEN \* (\d+)\s*HP, (\d+)\s*hp, (\d+)\s*horse\s*power
         NumberUnit(s, i, DigitsEnd(s, i), k)
    ELSE \* HP\s*[:\-]?\s*(\d+), Power\s*[:\-]?\s*(\d+)
         WordNumber(s, Lit(s, i, IF k = 4 THEN HP ELSE PowerWord))

\* re.findall(hp_patterns[k], s, re.IGNORECASE): the groups of the
\* non-overlapping matches, left to right; m is the attempt at i
RECURSIVE HpFindAll(_, _, _, _)
RECURSIVE HpFindStep(_, _, _, _, _)
HpFindStep(s, i, k, acc, m) ==
    IF m = None THEN HpFindAll(s, i + 1, k, acc)
    ELSE HpFindAll(s, m.end, k, Append(acc, m.group))

HpFindAll(s, i, k, acc) ==
    IF i > Len(s) THEN acc ELSE HpFindStep(s, i, k, acc, HpMatchAt(s, i, k))

HpPatternCount == 5

HpLow == 20

HpHigh == 150

NoHp == Dict([value |-> None, confidence |-> IntNum(0),
              explanation |-> Msg("No HP value found", <<>>)])

\* a variant of hp_value_of without the range check
hp_value_of_unchecked(hp_value, k) ==
    Dict([value |-> IntNum(hp_value), confidence |-> Num(85, 100),
          explanation |-> Msg("Extracted {} HP using pattern '{}'",
                              <<IntNum(hp_value), IntNum(k)>>)])

\* the body of the loop over hp_patterns for pattern k, matches being what
\* findall returned: what it returns, None when the loop goes on
hp_value_of(hp_value, k) ==
    IF HpLow <= hp_value /\ hp_value <= HpHigh
    THEN Dict([value |-> IntNum(hp_value), confidence |-> Num(85, 100),
               explanation |-> Msg("Extracted {} HP using pattern '{}'",
                                   <<IntNum(hp_value), IntNum(k)>>)])
    ELSE None

hp_step(matches, k) ==
    IF matches # <<>> THEN hp_value_of(DigitsToInt(matches[1], 0), k) ELSE None

\* what the first pattern that matches decides: its value, else no value
DecidedBy(matches, k) == IF hp_step(matches, k) # None THEN hp_step(matches, k) ELSE NoHp

\* a variant of hp_scan that stops at the first pattern that matches
RECURSIVE hp_scan_first_match(_, _, _)
hp_scan_first_match(text, k, returned) ==
    IF returned # None THEN returned
    ELSE IF k > HpPatternCount THEN NoHp
    ELSE IF HpFindAll(text, 1, k, <<>>) # <<>>
    THEN DecidedBy(HpFindAll(text, 1, k, <<>>), k)
    ELSE hp_scan_first_match(text, k + 1, None)

\* the loop over hp_patterns from pattern k on
RECURSIVE hp_scan(_, _, _)
hp_scan(text, k, returned) ==
    IF returned # None THEN returned
    ELSE IF k > HpPatternCount THEN NoHp
    ELSE hp_scan(text, k + 1, hp_step(HpFindAll(text, 1, k, <<>>), k))

\* the return of the secondary value, v being int(vlm_hp)
hp_from_vlm(v) ==
    IF IsRaise(v) THEN v
    ELSE Dict([value |-> v, confidence |-> Num(9, 10),
               explanation |-> Msg("Extracted {} HP from VLM", <<v>>)])

\* the text result when it has a value, the secondary value otherwise
TextFirst(from_text, vlm) ==
    IF from_text.d.value # None \/ Get(vlm, "horse_power", None) = None THEN from_text
    ELSE hp_from_vlm(PyInt(Get(vlm, "horse_power", None)))

\* a variant of extract_horse_power that reads the text before the secondary value
extract_horse_power_text_first(ocr_text, vlm) == TextFirst(hp_scan(ocr_text, 1, None), vlm)

\* a variant of extract_horse_power that falls back on the text when the
\* secondary value is outside the extractor's band
extract_horse_power_with_fallback(ocr_text, vlm) ==
    IF Get(vlm, "horse_power", None) # None
       /\ (IsNum(Get(vlm, "horse_power", None)) =>
              /\ Leq(IntNum(HpLow), Get(vlm, "horse_power", None))
              /\ Leq(Get(vlm, "horse_power", None), IntNum(HpHigh)))
    THEN hp_from_vlm(PyInt(Get(vlm, "horse_power", None)))
    ELSE hp_scan(ocr_text, 1, None)

extract_horse_power(ocr_text, vlm) ==
    IF Get(vlm, "horse_power", None) # None
    THEN hp_from_vlm(PyInt(Get(vlm, "horse_power", None)))
    ELSE hp_scan(ocr_text, 1, None)

----------------------------------------------------------------------------
(* FieldExtractor: asset cost *)

CostWords == << <<"t", "o", "t", "a", "l">>, <<"c", "o", "s", "t">>,
                <<"p", "r", "i", "c", "e">>, <<"a", "m", "o", "u", "n", "t">>,
                <<"v", "a", "l", "u", "e">> >>

Rs == <<"r", "s">>

Rupees == <<"r", "u", "p", "e", "e", "s">>

Lakh == <<"l", "a", "k", "h">>

\* the one character U+20B9 (the rupee sign), written as one element
RupeeSign == "R$"

\* (?:total|cost|price|amount|value): the index after the word at i, or 0
RECURSIVE CostWordFrom(_, _, _)
CostWordFrom(s, i, k) ==
    IF k > Len(CostWords) THEN 0
    ELSE IF Lit(s, i, CostWords[k]) # 0 THEN i + Len(CostWords[k])
    ELSE CostWordFrom(s, i, k + 1)

CostWordAt(s, i) == CostWordFrom(s, i, 1)

\* \.? after "rs", the index r being the one after "rs"
OptPoint(s, r) == IF r <= Len(s) /\ s[r] = "." THEN r + 1 ELSE r

\* (?:rs\.?|RupeeSign): the index after it, or 0
CurrencyAt(s, i) ==
    IF Lit(s, i, Rs) # 0 THEN OptPoint(s, i + Len(Rs))
    ELSE IF i <= Len(s) /\ s[i] = RupeeSign THEN i + 1 ELSE 0

\* (?:rs\.?|RupeeSign)?: the index after it, a when it is not there
OptCurrency(a, c) == IF c = 0 THEN a ELSE c

RECURSIVE DigitsCommasEnd(_, _)
DigitsCommasEnd(s, i) ==
    IF i <= Len(s) /\ (IsDigit(s[i]) \/ s[i] = ",") THEN DigitsCommasEnd(s, i + 1) ELSE i

\* (?:\.\d{2})? after the digits and commas s[i..j-1]: the index after the
\* amount, or 0 when there are no digits or commas
CentsEnd(s, i, j) ==
    IF j = i THEN 0
    ELSE IF j + 2 <= Len(s) /\ s[j] = "." /\ IsDigit(s[j + 1]) /\ IsDigit(s[j + 2])
    THEN j + 3 ELSE j

\* ([\d,]+(?:\.\d{2})?) at i: the index after it, or 0
AmountEnd(s, i) == IF i = 0 \/ i > Len(s) THEN 0 ELSE CentsEnd(s, i, DigitsCommasEnd(s, i))

\* the amount at g as a match: [group, end], or None
AmountMatch(s, g, e) == Matched(s, g, e, e)

AmountFrom(s, g) == AmountMatch(s, g, AmountEnd(s, g))

\* \s*(?:rs\.?|RupeeSign)?\s*([\d,]+(?:\.\d{2})?) from a
CurrencyAmount(s, a) == AmountFrom(s, SkipSpace(s, OptCurrency(a, CurrencyAt(s, a))))

\* cost_patterns[1] after its word, the index w being the one after it, or 0
WordAmount(s, w) == IF w = 0 THEN None ELSE CurrencyAmount(s, SepAt(s, w))

\* cost_patterns[2] after its currency, the index c being the one after it, or 0
AfterCurrency(s, c) == IF c = 0 THEN None ELSE AmountFrom(s, SkipSpace(s, c))

\* lakhs?: the index after it, l being the one after "lakh", or 0
OptPlural(s, l) == IF l # 0 /\ l <= Len(s) /\ LowerChar(s[l]) = "s" THEN l + 1 ELSE l

\* (?:rupees|lakhs?) at u: the index after it, or 0
CostUnitAt(s, u) == IF Lit(s, u, Rupees) # 0 THEN u + Len(Rupees) ELSE OptPlural(s, Lit(s, u, Lakh))

\* cost_patterns[3], the amount being s[i..e-1] (e = 0: no amount at i)
AmountUnit(s, i, e) == IF e = 0 THEN None ELSE Matched(s, i, e, CostUnitAt(s, SkipSpace(s, e)))

\* one attempt of cost_patterns[k] at i: [group, end], or None
CostMatchAt(s, i, k) ==
    IF k = 1 THEN WordAmount(s, CostWordAt(s, i))
    ELSE IF k = 2 THEN AfterCurrency(s, CurrencyAt(s, i))
    ELSE AmountUnit(s, i, AmountEnd(s, i))

\* re.findall(cost_patterns[k], s, re.IGNORECASE); m is the attempt at i
RECURSIVE CostFindAll(_, _, _, _)
RECURSIVE CostFindStep(_, _, _, _, _)
CostFindStep(s, i, k, acc, m) ==
    IF m = None THEN CostFindAll(s, i + 1, k, acc)
    ELSE CostFindAll(s, m.end, k, Append(acc, m.group))

CostFindAll(s, i, k, acc) ==
    IF i > Len(s) THEN acc ELSE CostFindStep(s, i, k, acc, CostMatchAt(s, i, k))

CostPatternCount == 3

CostLow == 300000

CostHigh == 1500000

\* match.replace(',', '')
RECURSIVE DropCommas(_)
DropCommas(s) ==
    IF s = <<>> THEN <<>>
    ELSE IF Head(s) = "," THEN DropCommas(Tail(s)) ELSE <<Head(s)>> \o DropCommas(Tail(s))

\* try: float(value_str), kept when in range; except ValueError: continue
cost_keep(acc, value, k) ==
    IF ~IsRaise(value) /\ Leq(IntNum(CostLow), value) /\ Leq(value, IntNum(CostHigh))
    THEN Append(acc, [value |-> value, pattern |-> k]) ELSE acc

\* the inner loop: the in-range values of the matches of pattern k, appended
RECURSIVE cost_values(_, _, _)
cost_values(matches, k, acc) ==
    IF matches = <<>> THEN acc
    ELSE cost_values(Tail(matches), k,
                     cost_keep(acc, PyFloat(Str(Strip(DropCommas(Head(matches))))), k))

RECURSIVE cost_candidates(_, _, _)
cost_candidates(text, k, acc) ==
    IF k > CostPatternCount THEN acc
    ELSE cost_candidates(text, k + 1, cost_values(CostFindAll(text, 1, k, <<>>), k, acc))

\* a variant of MaxCandidate that takes the first candidate
MaxCandidate_first(candidates) == candidates[1]

\* max(candidates, key=lambda x: x[0]): the first candidate of the greatest value
MaxCandidate(candidates) ==
    candidates[CHOOSE i \in DOMAIN candidates :
        /\ \A j \in DOMAIN candidates : Leq(candidates[j].value, candidates[i].value)
        /\ \A j \in 1..(i - 1) : Less(candidates[j].value, candidates[i].value)]

cost_from_text(best) ==
    Dict([value |-> best.value, confidence |-> Num(85, 100),
          explanation |-> Msg("Extracted cost {:,.2f} using pattern '{}'",
                              <<best.value, IntNum(best.pattern)>>)])

cost_of(candidates) ==
    IF candidates # <<>> THEN cost_from_text(MaxCandidate(candidates))
    ELSE Dict([value |-> None, confidence |-> IntNum(0),
               explanation |-> Msg("No valid cost found", <<>>)])

\* the return of the secondary value, v being float(vlm_cost); the format
\* {:,.2f} raises ValueError for a value that is no number
cost_from_vlm(vlm_cost, v) ==
    IF IsRaise(v) THEN v
    ELSE IF vlm_cost.t \notin {"num", "bool"} THEN Raise("ValueError")
    ELSE Dict([value |-> v, confidence |-> Num(9, 10),
               explanation |-> Msg("Extracted cost {:,.2f} from VLM", <<vlm_cost>>)])

extract_asset_cost(ocr_text, vlm) ==
    IF Get(vlm, "asset_cost", None) # None
    THEN cost_from_vlm(Get(vlm, "asset_cost", None), PyFloat(Get(vlm, "asset_cost", None)))
    ELSE cost_of(cost_candidates(ocr_text, 1, <<>>))

----------------------------------------------------------------------------
(* FieldExtractor.extract_all_fields *)

NoDetection == Dict([present |-> Bool(FALSE), bbox |-> None])

\* a variant of all_fields that subscripts the detection payload, which raises
\* KeyError on a missing key
all_fields_subscripting(dealer, model, hp, cost, detection) ==
    IF IsRaise(hp) THEN hp
    ELSE IF IsRaise(cost) THEN cost
    ELSE IF {"signature", "stamp"} \subseteq DOMAIN detection
    THEN Dict([dealer_name |-> dealer,
               model_name |-> model,
               horse_power |-> hp,
               asset_cost |-> cost,
               dealer_signature |-> detection["signature"],
               dealer_stamp |-> detection["stamp"]])
    ELSE Raise("KeyError")

\* the fields dict of the four results and the detection payloads; an
\* exception raised by an extractor leaves extract_all_fields
all_fields(dealer, model, hp, cost, detection) ==
    IF IsRaise(hp) THEN hp
    ELSE IF IsRaise(cost) THEN cost
    ELSE Dict([dealer_name |-> dealer,
               model_name |-> model,
               horse_power |-> hp,
               asset_cost |-> cost,
               dealer_signature |-> Get(detection, "signature", NoDetection),
               dealer_stamp |-> Get(detection, "stamp", NoDetection)])

\* ocr_result.get('full_text', '')
FullText(ocr) == Get(ocr, "full_text", Str(<<>>)).s

extract_all_fields(ocr, vlm, detection, dealers, assets) ==
    all_fields(extract_dealer_name(FullText(ocr), vlm, dealers),
               extract_model_name(FullText(ocr), vlm, assets),
               extract_horse_power(FullText(ocr), vlm),
               extract_asset_cost(FullText(ocr), vlm),
               detection)

----------------------------------------------------------------------------
(* Validator *)

\* a variant of min_confidence that keeps only a certain match
min_confidence_certain == IntNum(1)

\* Validator.__init__: the default threshold, which the pipeline uses
min_confidence == Num(1, 2)

HpMin == 15

HpMax == 200

CostMin == 200000

CostMax == 2000000

\* a >= b on Python values: only numbers compare
PyGe(a, b) ==
    IF a.t \in {"num", "bool"} /\ b.t \in {"num", "bool"}
    THEN Bool(Leq(PyFloat(b), PyFloat(a)))
    ELSE Raise("TypeError")

InBand(v, low, high) ==
    IF IsRaise(v) THEN FALSE ELSE Leq(IntNum(low), v) /\ Leq(v, IntNum(high))

\* a variant of validate_hp_range with the band of the extractor
validate_hp_range_extractor_band(hp_value) == InBand(PyFloat(hp_value), HpLow, HpHigh)

InsideBand(v, low, high) ==
    IF IsRaise(v) THEN FALSE ELSE Less(IntNum(low), v) /\ Less(v, IntNum(high))

\* a variant of validate_cost_range with exclusive ends
validate_cost_range_exclusive(cost_value) == InsideBand(PyFloat(cost_value), CostMin, CostMax)

\* try: float(v) in band; except: False
validate_hp_range(hp_value) == InBand(PyFloat(hp_value), HpMin, HpMax)

validate_cost_range(cost_value) == InBand(PyFloat(cost_value), CostMin, CostMax)

\* isinstance(v, (int, float))
IsIntOrFloat(v) == v.t \in {"num", "bool"}

\* a variant of validate_bbox that lets a zero width or height through
validate_bbox_nonnegative(bbox) ==
    IF bbox = None THEN None
    ELSE IF bbox.t = "list" /\ Len(bbox.l) = 4
            /\ (\A i \in 1..4 : IsIntOrFloat(bbox.l[i]))
            /\ (\A i \in 1..4 : Leq(IntNum(0), PyFloat(bbox.l[i])))
    THEN List([i \in 1..4 |-> PyInt(bbox.l[i])])
    ELSE None

validate_bbox(bbox) ==
    IF bbox = None THEN None
    ELSE IF bbox.t = "list" /\ Len(bbox.l) = 4
            /\ (\A i \in 1..4 : IsIntOrFloat(bbox.l[i]))
            /\ Leq(IntNum(0), PyFloat(bbox.l[1])) /\ Leq(IntNum(0), PyFloat(bbox.l[2]))
            /\ Less(IntNum(0), PyFloat(bbox.l[3])) /\ Less(IntNum(0), PyFloat(bbox.l[4]))
    THEN List([i \in 1..4 |-> PyInt(bbox.l[i])])
    ELSE None

\* a variant of text_entries that writes its own explanation for an accepted
\* record
text_entries_relabelling(d, ok) ==
    IF IsRaise(ok) THEN ok
    ELSE IF ok.b
    THEN [value |-> Get(d, "value", None),
          confidence |-> Get(d, "confidence", None),
          explanation |-> Msg("Direct extraction", <<>>)]
    ELSE [value |-> None,
          confidence |-> Get(d, "confidence", IntNum(0)),
          explanation |-> Get(d, "explanation", Msg("Low confidence", <<>>))]

\* a variant of text_entries that keeps the value of a rejected record
text_entries_keeping_value(d, ok) ==
    IF IsRaise(ok) THEN ok
    ELSE IF ok.b
    THEN [value |-> Get(d, "value", None),
          confidence |-> Get(d, "confidence", None),
          explanation |-> Get(d, "explanation", None)]
    ELSE [value |-> Get(d, "value", None),
          confidence |-> Get(d, "confidence", IntNum(0)),
          explanation |-> Get(d, "explanation", Msg("Low confidence", <<>>))]

\* a variant of text_entries that gives a rejected record the confidence of a
\* bare value
text_entries_fallback(d, ok) ==
    IF IsRaise(ok) THEN ok
    ELSE IF ok.b
    THEN [value |-> Get(d, "value", None),
          confidence |-> Get(d, "confidence", None),
          explanation |-> Get(d, "explanation", None)]
    ELSE [value |-> None,
          confidence |-> Num(1, 2),
          explanation |-> Get(d, "explanation", Msg("Low confidence", <<>>))]

\* the branches of validate on a structured text record, ok being
\* confidence >= min_confidence (or the TypeError of that comparison)
text_entries(d, ok) ==
    IF IsRaise(ok) THEN ok
    ELSE IF ok.b
    THEN [value |-> Get(d, "value", None),
          confidence |-> Get(d, "confidence", None),
          explanation |-> Get(d, "explanation", None)]
    ELSE [value |-> None,
          confidence |-> Get(d, "confidence", IntNum(0)),
          explanation |-> Get(d, "explanation", Msg("Low confidence", <<>>))]

\* the three entries validate writes for a text field (dealer_name, model_name)
validate_text(payload) ==
    IF payload.t = "dict"
    THEN text_entries(payload.d, PyGe(Get(payload.d, "confidence", IntNum(0)), min_confidence))
    ELSE [value |-> payload, confidence |-> Num(1, 2),
          explanation |-> Msg("Direct extraction", <<>>)]

\* the branches of validate on a numeric field: converted is int(value) or
\* float(value), evaluated only when the value is accepted
numeric_entries(payload, accepted, converted) ==
    IF accepted /\ IsRaise(converted) THEN converted
    ELSE IF payload.t = "dict"
    THEN IF accepted
         THEN [value |-> converted,
               confidence |-> Get(payload.d, "confidence", None),
               explanation |-> Get(payload.d, "explanation", None)]
         ELSE [value |-> None,
               confidence |-> Get(payload.d, "confidence", IntNum(0)),
               explanation |-> Get(payload.d, "explanation",
                                   Msg("Invalid range or not found", <<>>))]
    ELSE IF accepted
         THEN [value |-> converted, confidence |-> Num(7, 10),
               explanation |-> Msg("Direct extraction", <<>>)]
         ELSE [value |-> None, confidence |-> IntNum(0),
               explanation |-> Msg("Invalid or not found", <<>>)]

\* hp.get('value') of a structured record, the payload itself otherwise
ValueOf(payload) == IF payload.t = "dict" THEN Get(payload.d, "value", None) ELSE payload

hp_entries(payload, hp_value) ==
    numeric_entries(payload, Truthy(hp_value) /\ validate_hp_range(hp_value), PyInt(hp_value))

\* the three entries validate writes for horse_power
validate_hp(payload) == hp_entries(payload, ValueOf(payload))

cost_entries(payload, cost_value) ==
    numeric_entries(payload, Truthy(cost_value) /\ validate_cost_range(cost_value),
                    PyFloat(cost_value))

\* the three entries validate writes for asset_cost
validate_cost(payload) == cost_entries(payload, ValueOf(payload))

\* a variant of validate_detection that reports no detection when the box is
\* rejected
validate_detection_consistent(payload) ==
    IF payload.t # "dict" THEN Raise("AttributeError")
    ELSE Dict([present |-> IF validate_bbox(Get(payload.d, "bbox", None)) = None
                           THEN Bool(FALSE)
                           ELSE Get(payload.d, "present", Bool(FALSE)),
               bbox |-> validate_bbox(Get(payload.d, "bbox", None)),
               confidence |-> Get(payload.d, "confidence", IntNum(0))])

\* the entry validate writes for dealer_signature or dealer_stamp;
\* .get on a payload that is no dict raises AttributeError
validate_detection(payload) ==
    IF payload.t # "dict" THEN Raise("AttributeError")
    ELSE Dict([present |-> Get(payload.d, "present", Bool(FALSE)),
               bbox |-> validate_bbox(Get(payload.d, "bbox", None)),
               confidence |-> Get(payload.d, "confidence", IntNum(0))])

\* the validated dict of the entries, or the first exception raised
validated_of(dealer, model, hp, cost, signature, stamp) ==
    IF IsRaise(dealer) THEN dealer
    ELSE IF IsRaise(model) THEN model
    ELSE IF IsRaise(hp) THEN hp
    ELSE IF IsRaise(cost) THEN cost
    ELSE IF IsRaise(signature) THEN signature
    ELSE IF IsRaise(stamp) THEN stamp
    ELSE Dict([dealer_name |-> dealer.value,
               dealer_name_confidence |-> dealer.confidence,
               dealer_name_explanation |-> dealer.explanation,
               model_name |-> model.value,
               model_name_confidence |-> model.confidence,
               model_name_explanation |-> model.explanation,
               horse_power |-> hp.value,
               horse_power_confidence |-> hp.confidence,
               horse_power_explanation |-> hp.explanation,
               asset_cost |-> cost.value,
               asset_cost_confidence |-> cost.confidence,
               asset_cost_explanation |-> cost.explanation,
               dealer_signature |-> signature,
               dealer_stamp |-> stamp])

\* Validator.validate(fields): the validated dict, or the exception raised
validate(f) ==
    validated_of(validate_text(Get(f, "dealer_name", Dict(EmptyDict))),
                 validate_text(Get(f, "model_name", Dict(EmptyDict))),
                 validate_hp(Get(f, "horse_power", Dict(EmptyDict))),
                 validate_cost(Get(f, "asset_cost", Dict(EmptyDict))),
                 validate_detection(Get(f, "dealer_signature", Dict(EmptyDict))),
                 validate_detection(Get(f, "dealer_stamp", Dict(EmptyDict))))

----------------------------------------------------------------------------
(* OutputFormatter.format: the fields, confidence and explanation mappings *)

\* fields.get(key, {}) of a detection payload, on which .get(...) is called:
\* AttributeError when it is no dict
DetectionOf(v, key) ==
    IF Get(v, key, Dict(EmptyDict)).t = "dict" THEN Get(v, key, Dict(EmptyDict)).d
    ELSE Raise("AttributeError")

\* a variant of Detected that reports any payload holding a present flag
Detected_if_flagged(payload) ==
    IF "present" \in DOMAIN payload
    THEN Msg("Detected", <<>>) ELSE Msg("Not detected", <<>>)

Detected(payload) ==
    IF Truthy(Get(payload, "present", None))
    THEN Msg("Detected", <<>>) ELSE Msg("Not detected", <<>>)

format_of(v, signature, stamp) ==
    [fields |->
        [dealer_name |-> Get(v, "dealer_name", None),
         model_name |-> Get(v, "model_name", None),
         horse_power |-> Get(v, "horse_power", None),
         asset_cost |-> Get(v, "asset_cost", None),
         dealer_signature |->
            [present |-> Get(signature, "present", Bool(FALSE)),
             bbox |-> Get(signature, "bbox", None)],
         dealer_stamp |->
            [present |-> Get(stamp, "present", Bool(FALSE)),
             bbox |-> Get(stamp, "bbox", None)]],
     confidence |->
        [dealer_name |-> Get(v, "dealer_name_confidence", IntNum(0)),
         model_name |-> Get(v, "model_name_confidence", IntNum(0)),
         horse_power |-> Get(v, "horse_power_confidence", IntNum(0)),
         asset_cost |-> Get(v, "asset_cost_confidence", IntNum(0)),
         dealer_signature |-> Get(signature, "confidence", IntNum(0)),
         dealer_stamp |-> Get(stamp, "confidence", IntNum(0))],
     explanation |->
        [dealer_name |-> Get(v, "dealer_name_explanation", Msg("", <<>>)),
         model_name |-> Get(v, "model_name_explanation", Msg("", <<>>)),
         horse_power |-> Get(v, "horse_power_explanation", Msg("", <<>>)),
         asset_cost |-> Get(v, "asset_cost_explanation", Msg("", <<>>)),
         dealer_signature |-> Detected(signature),
         dealer_stamp |-> Detected(stamp)]]

\* the record of format_of, or the exception a detection entry raised
format_or_raise(v, signature, stamp) ==
    IF IsRaise(signature) THEN signature
    ELSE IF IsRaise(stamp) THEN stamp
    ELSE format_of(v, signature, stamp)

format(v) ==
    format_or_raise(v, DetectionOf(v, "dealer_signature"), DetectionOf(v, "dealer_stamp"))

----------------------------------------------------------------------------
(* The reference files and the documents the runs draw from *)

\* lines of the dealer reference file
DealerRef1 == <<"a", "b", "c", " ", "a", "u", "t", "o", " ", "l", "t", "d", ".">>

DealerRef2 == <<"a", "b", "d", " ", "a", "u", "t", "o", " ", "l", "t", "d">>

DealerRef3 == <<"x", "y", "z", " ", "m", "o", "t", "o", "r", "s">>

DealerRefs == {DealerRef1, DealerRef2, DealerRef3}

\* lines of the model reference file
AssetRef1 == <<"t", "a", "f", "e", " ", "7", "2", "5", "0", " ", "d", "i">>

AssetRef2 == <<"k", "u", "b", "o", "t", "a", " ", "m", "u", "4", "5", "0", "1">>

AssetRef3 == <<"t", "a", "f", "e", " ", "7", "2", "5", "0", " ", "d", "i", ".">>

AssetRefs == {AssetRef1, AssetRef2, AssetRef3}

\* dealer names the secondary source reports
VlmDealerA == <<"a", "b", "c", " ", "a", "u", "t", "o", " ", "l", "t", "d">>

VlmDealerB == <<"a", "b", "d", " ", "a", "u", "t", "o", " ", "l", "t", "d">>

VlmDealerC == <<"x", "y", "z", " ", "m", "o", "t", "o", "r">>

VlmDealerD == <<"a", "b", "c", " ", "a", "u", "t", "o">>

VlmDealers == {Str(<<>>), Str(VlmDealerA), Str(VlmDealerB), Str(VlmDealerC), Str(VlmDealerD)}

\* model names the secondary source reports
VlmModelA == <<"t", "a", "f", "e", " ", "7", "2", "5", "0", " ", "d", "i", ".">>

VlmModelC == <<"k", "u", "b", "o", "t", "a", " ", "m", "u", "4", "5", "0">>

VlmModelD == <<"t", "a", "f", "e", " ", "7", "2", "5", "0">>

VlmModels == {Str(<<>>), Str(VlmModelA), Str(VlmModelC), Str(VlmModelD)}

\* lines of recognized text
LineDealerA == <<" ", "a", "b", "c", "-", "a", "u", "t", "o", " ", "l", "t", "d", ".", " ">>

LineDealerC == <<"a", "b", "d", " ", "a", "u", "t", "o", " ", "l", "t", "d">>

LineDealerD == <<"l", "t", "d", ".">>

LineModelA == <<" ", "t", "a", "f", "e", " ", "7", "2", "5", "0", " ", "d", "i", ".">>

LineModelB == <<"k", "u", "b", "o", "t", "a", " ", "m", "u", "4", "5", "0", "1">>

LineModelD == <<"k", "u", "b", "o", "t", "a", " ", "m", "u", "4", "5", "0">>

LineHpA == <<"4", "5", " ", "H", "P">>

LineHpB == <<"5", "0", "0", " ", "h", "p">>

LineHpC == <<"P", "o", "w", "e", "r", ":", " ", "5", "0">>

LineHpD == <<"h", "p", " ", "-", " ", "3", "0">>

LineHpE == <<"3", "5", " ", "h", "o", "r", "s", "e", " ", "p", "o", "w", "e", "r">>

LineHpF == <<"H", "P", " ", "2", "0", "0", "0">>

LineCostA == <<"T", "o", "t", "a", "l", ":", " ", "R", "s", ".", " ", "4", "5", "0", "0", "0", "0">>

LineCostB == <<"R", "s", " ", "3", ",", "5", "0", ",", "0", "0", "0", ".", "0", "0">>

LineCostC == <<"1", "2", ",", "0", "0", ",", "0", "0", "0", " ", "r", "u", "p", "e", "e", "s">>

LineCostD == <<"p", "r", "i", "c", "e", " ", "1", "6", "0", "0", "0", "0", "0">>

LineCostE == <<"c", "o", "s", "t", ":", " ", ",">>

LineCostF == <<"2", "5", "0", "0", "0", "0", " ", "l", "a", "k", "h", "s">>

DealerLines == {LineDealerA, LineDealerC, LineDealerD}

ModelLines == {LineModelA, LineModelB, LineModelD}

HpLines == {LineHpA, LineHpB, LineHpC, LineHpD, LineHpE, LineHpF}

CostLines == {LineCostA, LineCostB, LineCostC, LineCostD, LineCostE, LineCostF}

\* power values the secondary source reports
VlmHps == {None, IntNum(0), IntNum(10), IntNum(45), Num(91, 2), IntNum(150),
           Num(301, 2), IntNum(175), IntNum(200), IntNum(250)}

\* cost values the secondary source reports
VlmCosts == {None, IntNum(0), IntNum(150000), IntNum(450000), Num(900001, 2),
             IntNum(2000000), IntNum(2500000)}

\* the most lines of text in a document
MaxLines == 2

\* the most entries in a reference list
MaxMaster == 2

SeqsUpTo(S, n) == UNION {[1..k -> S] : k \in 0..n}

\* the lists loaded from a reference file, taken with distinct entries
MasterLists(S) == {l \in SeqsUpTo(S, MaxMaster) :
                      \A i, j \in DOMAIN l : i # j => l[i] # l[j]}

\* the transcript of the given lines
TextOf(lines) == Join(lines, <<"\n">>)

Texts(lineset) == {TextOf(l) : l \in SeqsUpTo(lineset, MaxLines)}

\* the orders of n lines
Orders(n) == {f \in [1..n -> 1..n] : \A i, j \in 1..n : f[i] = f[j] => i = j}

InOrder(lines, order) == [i \in DOMAIN lines |-> lines[order[i]]]

\* a key that the mapping does not hold
Absent == [t |-> "absent"]

\* a mapping with the key when a value is given, without it otherwise
Optional(key, v) == IF v = Absent THEN EmptyDict ELSE [k \in {key} |-> v]

NoDocument == EmptyDict

NoDetections == [signature |-> Dict([present |-> Bool(FALSE), bbox |-> None,
                                      confidence |-> IntNum(0)]),
                 stamp |-> Dict([present |-> Bool(FALSE), bbox |-> None,
                                  confidence |-> IntNum(0)])]

\* a structured record {value, confidence, explanation}, a key left out
\* where Absent is given
Record(value, confidence, explanation) ==
    Dict(Optional("value", value) @@ Optional("confidence", confidence)
         @@ Optional("explanation", explanation))

\* confidences and explanations a record can carry
Confidences == {Absent, IntNum(0), Num(85, 100), Num(9, 10)}

Explanations == {Absent, Msg("Extracted {} HP from VLM", <<IntNum(45)>>)}

\* values of horse_power records handed to the Validator
HpValues == {Absent, None, IntNum(-20), IntNum(0), IntNum(14), Num(29, 2), IntNum(15),
             Num(31, 2), IntNum(45), IntNum(200), Num(401, 2), IntNum(201)}

\* values of asset_cost records handed to the Validator
CostValues == {Absent, None, IntNum(-5), IntNum(0), IntNum(199999), Num(399999, 2),
               IntNum(200000), Num(900001, 2), IntNum(2000000), Num(4000001, 2),
               IntNum(2000001)}

HpRecords == {Record(v, c, e) : v \in HpValues, c \in Confidences, e \in Explanations}

CostRecords == {Record(v, c, e) : v \in CostValues, c \in Confidences, e \in Explanations}

\* a Python tuple
Tuple(l) == [t |-> "tuple", l |-> l]

\* coordinates and sizes of the boxes handed to the Validator
BoxXY == {IntNum(-1), IntNum(0), Num(1, 2), IntNum(10)}

BoxWH == {IntNum(-1), IntNum(0), Num(1, 2), IntNum(5)}

Boxes == {List(<<x, y, w, h>>) : x \in BoxXY, y \in BoxXY, w \in BoxWH, h \in BoxWH}
         \cup {Absent, None, List(<<>>), List(<<IntNum(10), IntNum(10), IntNum(5)>>),
               List(<<IntNum(10), IntNum(10), IntNum(5), IntNum(5), IntNum(5)>>),
               List(<<IntNum(10), IntNum(10), Str(<<"5">>), IntNum(5)>>),
               Tuple(<<IntNum(10), IntNum(10), IntNum(5), IntNum(5)>>),
               Str(<<"1", "0", "1", "0">>)}

\* a detection payload {present, bbox, confidence}, a key left out where
\* Absent is given
Detection(present, bbox, confidence) ==
    Dict(Optional("present", present) @@ Optional("bbox", bbox)
         @@ Optional("confidence", confidence))

Detections == {Detection(p, b, c) : p \in {Absent, Bool(TRUE), Bool(FALSE)},
                                    b \in Boxes, c \in {Absent, Num(9, 10)}}

\* the payloads of the other detection while one is varied
OtherDetections == {Detection(Bool(FALSE), None, IntNum(0)),
                    Detection(Bool(TRUE), List(<<IntNum(0), IntNum(0), IntNum(5), IntNum(5)>>),
                              Num(9, 10))}

\* payloads of dealer_name and model_name handed to the Validator
TextValues == {Absent, None, Str(DealerRef1)}

TextConfidences == Confidences \cup {None, Num(49, 100), Num(1, 2)}

TextRecords == {Record(v, c, e) : v \in TextValues, c \in TextConfidences,
                                  e \in {Absent, Msg("No match found", <<>>)}}

BareTexts == {None, Str(<<>>), Str(DealerRef1)}

\* numeric payloads that are no record of a number: bare values, and records
\* whose value is a str
NumericTexts == {Str(<<"4", "5">>), Str(<<"4", "5", ".", "5">>), Str(<<"a", "b", "c">>),
                 Str(<<"4", "5", "0", "0", "0", "0">>)}

BareNumbers == {None, IntNum(0), IntNum(45), Num(91, 2), IntNum(250), IntNum(450000),
                Num(900001, 2)} \cup NumericTexts

StringRecords == {Record(v, c, Absent) : v \in NumericTexts, c \in {Absent, Num(9, 10)}}

\* detection entries that are no mapping
NotMappings == {None, Bool(TRUE), List(<<IntNum(0), IntNum(0), IntNum(5), IntNum(5)>>)}

\* the records of a fields mapping that holds all four fields
FewRecords(values) == {Record(v, c, Absent) : v \in values,
                                              c \in {Absent, IntNum(0), Num(9, 10)}}

\* the entries of a validated mapping for one field, a key left out where
\* Absent is given
ValidatedEntries(name, value, confidence, explanation) ==
    Optional(name, value) @@ Optional(name \o "_confidence", confidence)
    @@ Optional(name \o "_explanation", explanation)

\* detection entries of a validated mapping
ValidatedDetections ==
    {Detection(p, b, c) : p \in {Absent, None, Bool(TRUE), Bool(FALSE)},
                          b \in {Absent, None,
                                  List(<<IntNum(0), IntNum(0), IntNum(5), IntNum(5)>>)},
                          c \in {Absent, Num(9, 10)}}
    \cup NotMappings

----------------------------------------------------------------------------
(* The state machine: FieldExtractor.__init__ loads the reference lists;
   process_document takes the upstream results of one document through
   extract_all_fields, Validator.validate and OutputFormatter.format;
   process_batch catches an exception and goes on to the next document. *)

\* the most documents in an input directory
MaxBatch == 3

\* process_batch is not running
NoBatch == [image_files |-> 0, i |-> 0, results |-> 0, pc |-> "none"]

Blank ==
    /\ ocr_result = NoDocument
    /\ vlm_result = NoDocument
    /\ detection_result = NoDocument
    /\ fields = None
    /\ validated = None
    /\ output = None
    /\ pc = "idle"
    /\ batch = NoBatch

InitDealer ==
    /\ dealer_master \in MasterLists(DealerRefs)
    /\ asset_master = <<AssetRef1, AssetRef2>>
    /\ Blank

InitModel ==
    /\ dealer_master = <<DealerRef1, DealerRef2>>
    /\ asset_master \in MasterLists(AssetRefs)
    /\ Blank

Init ==
    /\ dealer_master = <<DealerRef1, DealerRef2>>
    /\ asset_master = <<AssetRef1, AssetRef2>>
    /\ Blank

\* both reference lists loaded from their files, either of which may be
\* missing (an empty list)
InitNames ==
    /\ dealer_master \in {<<>>, <<DealerRef1, DealerRef2>>}
    /\ asset_master \in {<<>>, <<AssetRef1, AssetRef2>>}
    /\ Blank

\* the upstream results of a document arrive
Receive(ocr, vlm, detection) ==
    /\ pc = "idle"
    /\ ocr_result' = ocr
    /\ vlm_result' = vlm
    /\ detection_result' = detection
    /\ pc' = "received"
    /\ UNCHANGED <<batch, dealer_master, asset_master, fields, validated, output>>

ReceiveDealerDoc ==
    \E text \in Texts(DealerLines), d \in VlmDealers \cup {Absent} :
        Receive([full_text |-> Str(text)], Optional("dealer_name", d), NoDetections)

ReceiveModelDoc ==
    \E text \in Texts(ModelLines), m \in VlmModels \cup {Absent} :
        Receive([full_text |-> Str(text)], Optional("model_name", m), NoDetections)

ReceiveHpDoc ==
    \E text \in Texts(HpLines), hp \in VlmHps \cup {Absent} :
        Receive([full_text |-> Str(text)], Optional("horse_power", hp), NoDetections)

ReceiveCostDoc ==
    \E text \in Texts(CostLines), cost \in VlmCosts \cup {Absent} :
        Receive([full_text |-> Str(text)], Optional("asset_cost", cost), NoDetections)

\* a document of three lines arrives, a dealer line, '45 HP' and
\* 'Total: Rs. 450000' in any order, with an empty secondary source
ReceiveScenarioDoc ==
    \E line \in DealerLines, order \in Orders(3) :
        Receive([full_text |-> Str(TextOf(InOrder(<<line, LineHpA, LineCostA>>, order)))],
                EmptyDict, NoDetections)

\* a detection payload of a detected object
FoundDetection ==
    Detection(Bool(TRUE), List(<<IntNum(10), IntNum(10), IntNum(5), IntNum(5)>>), Num(9, 10))

\* a document arrives with keys missing upstream: no full_text, any of the
\* secondary source's field keys missing, no signature or no stamp
ReceiveSparseDoc ==
    \E text \in {Absent, Str(<<>>), Str(TextOf(<<LineDealerA, LineHpA, LineCostA>>))},
       dealer \in {Absent, Str(VlmDealerA)},
       model \in {Absent, Str(VlmModelA)},
       hp \in {Absent, IntNum(45)},
       cost \in {Absent, IntNum(450000)},
       signature \in {Absent, FoundDetection},
       stamp \in {Absent, FoundDetection} :
        Receive(Optional("full_text", text),
                Optional("dealer_name", dealer) @@ Optional("model_name", model)
                @@ Optional("horse_power", hp) @@ Optional("asset_cost", cost),
                Optional("signature", signature) @@ Optional("stamp", stamp))

\* power and cost values of a secondary-source mapping, numbers and strings
SecondaryHps ==
    {None, IntNum(0), IntNum(14), Num(29, 2), IntNum(15), IntNum(45), IntNum(200),
     Num(401, 2), IntNum(250),
     Str(<<"4", "5">>), Str(<<"4", "5", ".", "5">>), Str(<<"a", "b", "c">>), Str(<<>>)}

SecondaryCosts ==
    {None, IntNum(0), IntNum(199999), Num(399999, 2), IntNum(200000), IntNum(450000),
     IntNum(2000000), Num(4000001, 2), IntNum(2500000),
     Str(<<"4", "5", "0", "0", "0", "0">>), Str(<<"4", ",", "5", "0", ",", "0", "0", "0">>),
     Str(<<>>)}

\* texts with a plausible power and cost, with numbers out of range, with a
\* cost match that is no number, and with nothing
SecondaryTexts ==
    {<<>>, TextOf(<<LineHpA, LineCostA>>), TextOf(<<LineHpB, LineCostD>>),
     TextOf(<<LineCostE, LineHpE>>), TextOf(<<LineHpB, LineHpD, LineCostB>>)}

\* a document arrives whose secondary source reports the power
ReceiveSecondaryHp ==
    \E text \in SecondaryTexts, hp \in SecondaryHps \cup {Absent} :
        Receive([full_text |-> Str(text)], Optional("horse_power", hp), NoDetections)

\* a document arrives whose secondary source reports the cost
ReceiveSecondaryCost ==
    \E text \in SecondaryTexts, cost \in SecondaryCosts \cup {Absent} :
        Receive([full_text |-> Str(text)], Optional("asset_cost", cost), NoDetections)

\* a variant of ExtractAllFields that takes the first entry off the dealer
\* list as it goes
ExtractAllFields_consuming ==
    /\ pc = "received"
    /\ fields' = extract_all_fields(ocr_result, vlm_result, detection_result,
                                    dealer_master, asset_master)
    /\ pc' = IF IsRaise(fields') THEN "failed" ELSE "extracted"
    /\ dealer_master' = IF dealer_master = <<>> THEN <<>> ELSE Tail(dealer_master)
    /\ UNCHANGED <<batch, asset_master, ocr_result, vlm_result,
                   detection_result, validated, output>>

\* step 5 of process_document
ExtractAllFields ==
    /\ pc = "received"
    /\ fields' = extract_all_fields(ocr_result, vlm_result, detection_result,
                                    dealer_master, asset_master)
    /\ pc' = IF IsRaise(fields') THEN "failed" ELSE "extracted"
    /\ UNCHANGED <<batch, dealer_master, asset_master, ocr_result, vlm_result,
                   detection_result, validated, output>>

\* step 6 of process_document
Validate ==
    /\ pc = "extracted"
    /\ validated' = validate(fields.d)
    /\ pc' = IF IsRaise(validated') THEN "failed" ELSE "validated"
    /\ UNCHANGED <<batch, dealer_master, asset_master, ocr_result, vlm_result,
                   detection_result, fields, output>>

Format ==
    /\ pc = "validated"
    /\ output' = format(validated.d)
    /\ pc' = IF IsRaise(output') THEN "failed" ELSE "formatted"
    /\ UNCHANGED <<batch, dealer_master, asset_master, ocr_result, vlm_result,
                   detection_result, fields, validated>>

\* the batch loop goes on to the next document, whether this one was
\* formatted or raised
NextDocument ==
    /\ pc \in {"formatted", "failed"}
    /\ ocr_result' = NoDocument
    /\ vlm_result' = NoDocument
    /\ detection_result' = NoDocument
    /\ fields' = None
    /\ validated' = None
    /\ output' = None
    /\ pc' = "idle"
    /\ UNCHANGED <<batch, dealer_master, asset_master>>

\* a caller hands Validator.validate a fields mapping
ReceiveFields(f) ==
    /\ pc = "idle"
    /\ fields' = Dict(f)
    /\ pc' = "extracted"
    /\ UNCHANGED <<batch, dealer_master, asset_master, ocr_result, vlm_result,
                   detection_result, validated, output>>

ReceiveHpRecord == \E r \in HpRecords : ReceiveFields([horse_power |-> r])

ReceiveCostRecord == \E r \in CostRecords : ReceiveFields([asset_cost |-> r])

ReceiveSignature ==
    \E d \in Detections, other \in OtherDetections :
        ReceiveFields([dealer_signature |-> d, dealer_stamp |-> other])

ReceiveStamp ==
    \E d \in Detections, other \in OtherDetections :
        ReceiveFields([dealer_signature |-> other, dealer_stamp |-> d])

\* a text field arrives as a record or as a bare value
ReceiveTextPayload ==
    \E name \in {"dealer_name", "model_name"}, p \in TextRecords \cup BareTexts :
        ReceiveFields([k \in {name} |-> p])

\* a numeric field arrives as a bare value or with a str for its value
ReceiveNumericPayload ==
    \E name \in {"horse_power", "asset_cost"}, p \in BareNumbers \cup StringRecords :
        ReceiveFields([k \in {name} |-> p])

\* a detection entry arrives that is no mapping
ReceiveNotMapping ==
    \E name \in {"dealer_signature", "dealer_stamp"}, p \in NotMappings :
        ReceiveFields([k \in {name} |-> p])

\* all four fields arrive as records
ReceiveAllRecords ==
    \E dealer \in FewRecords({None, Str(DealerRef1)}),
       model \in FewRecords({None, Str(AssetRef1)}),
       hp \in FewRecords({None, IntNum(45)}),
       cost \in FewRecords({None, IntNum(450000)}) :
        ReceiveFields([dealer_name |-> dealer, model_name |-> model,
                       horse_power |-> hp, asset_cost |-> cost])

\* a caller hands OutputFormatter.format a mapping of validated fields
ReceiveValidated(v) ==
    /\ pc = "idle"
    /\ validated' = Dict(v)
    /\ pc' = "validated"
    /\ UNCHANGED <<batch, dealer_master, asset_master, ocr_result, vlm_result,
                   detection_result, fields, output>>

ReceiveValidatedField ==
    \E name \in {"dealer_name", "model_name", "horse_power", "asset_cost"},
       value \in {Absent, None, IntNum(45)},
       confidence \in {Absent, None, IntNum(0), Num(9, 10)},
       explanation \in {Absent, None, Msg("Direct extraction", <<>>)} :
        ReceiveValidated(ValidatedEntries(name, value, confidence, explanation))

ReceiveValidatedDetections ==
    \E signature \in ValidatedDetections \cup {Absent},
       stamp \in ValidatedDetections \cup {Absent} :
        ReceiveValidated(Optional("dealer_signature", signature)
                         @@ Optional("dealer_stamp", stamp))

\* process_batch finds the image files of the input directory and enters its loop
StartBatch ==
    /\ pc = "idle"
    /\ batch = NoBatch
    /\ \E n \in 0..MaxBatch :
          batch' = [image_files |-> n, i |-> 0, results |-> 0, pc |-> "loop"]
    /\ UNCHANGED <<dealer_master, asset_master, ocr_result, vlm_result,
                   detection_result, fields, validated, output, pc>>

\* the loop of process_batch calls process_document on the next image file
BatchReceive ==
    /\ batch.pc = "loop"
    /\ batch.i < batch.image_files
    /\ ReceiveSecondaryHp

\* the end of one iteration: a result is appended to results, an exception is
\* caught and printed; either way the loop goes on
BatchNextDocument ==
    /\ batch.pc = "loop"
    /\ pc \in {"formatted", "failed"}
    /\ batch' = [batch EXCEPT !.i = @ + 1,
                              !.results = IF pc = "formatted" THEN @ + 1 ELSE @]
    /\ ocr_result' = NoDocument
    /\ vlm_result' = NoDocument
    /\ detection_result' = NoDocument
    /\ fields' = None
    /\ validated' = None
    /\ output' = None
    /\ pc' = "idle"
    /\ UNCHANGED <<dealer_master, asset_master>>

\* total / len(results) of the summary: ZeroDivisionError when results is empty
average_of(results) == IF results = 0 THEN Raise("ZeroDivisionError") ELSE None

\* the summary after the loop, which divides total_time and total_cost by
\* len(results)
BatchSummary ==
    /\ batch.pc = "loop"
    /\ pc = "idle"
    /\ batch.i = batch.image_files
    /\ batch' = [batch EXCEPT !.pc = IF IsRaise(average_of(batch.results))
                                     THEN "raised" ELSE "returned"]
    /\ UNCHANGED <<dealer_master, asset_master, ocr_result, vlm_result,
                   detection_result, fields, validated, output, pc>>

\* process_batch is called again
BatchAgain ==
    /\ batch.pc \in {"returned", "raised"}
    /\ batch' = NoBatch
    /\ UNCHANGED <<dealer_master, asset_master, ocr_result, vlm_result,
                   detection_result, fields, validated, output, pc>>

Pipeline == ExtractAllFields \/ Validate \/ Format \/ NextDocument

NextDealer == ReceiveDealerDoc \/ Pipeline

NextModel == ReceiveModelDoc \/ Pipeline

NextNumeric == ReceiveHpDoc \/ ReceiveCostDoc \/ Pipeline

NextValidate ==
    \/ ReceiveHpRecord \/ ReceiveCostRecord \/ ReceiveSignature \/ ReceiveStamp
    \/ Validate \/ Format \/ NextDocument

NextScenario == ReceiveScenarioDoc \/ Pipeline

NextSparse == ReceiveSparseDoc \/ Pipeline

NextSecondary == ReceiveSecondaryHp \/ ReceiveSecondaryCost \/ Pipeline

NextNames == ReceiveDealerDoc \/ ReceiveModelDoc \/ Pipeline

NextBatch ==
    \/ StartBatch \/ BatchReceive \/ ExtractAllFields \/ Validate \/ Format
    \/ BatchNextDocument \/ BatchSummary \/ BatchAgain

NextPayloads ==
    \/ NextValidate
    \/ ReceiveTextPayload \/ ReceiveNumericPayload \/ ReceiveNotMapping \/ ReceiveAllRecords

NextFormat == ReceiveValidatedField \/ ReceiveValidatedDetections \/ Format \/ NextDocument

SpecDealer == InitDealer /\ [][NextDealer]_vars

SpecModel == InitModel /\ [][NextModel]_vars

SpecNumeric == Init /\ [][NextNumeric]_vars

SpecValidate == Init /\ [][NextValidate]_vars

SpecScenario == InitDealer /\ [][NextScenario]_vars

SpecSparse == Init /\ [][NextSparse]_vars

SpecSecondary == Init /\ [][NextSecondary]_vars

SpecNames == InitNames /\ [][NextNames]_vars

SpecBatch == Init /\ [][NextBatch]_vars

SpecPayloads == Init /\ [][NextPayloads]_vars

SpecFormat == Init /\ [][NextFormat]_vars

----------------------------------------------------------------------------
(* Properties.  A property reads the inputs of the document in hand
   (ocr_result, vlm_result, the reference lists, or the fields mapping handed
   to the Validator) and the result the step left in fields or validated. *)

\* the record extract_all_fields left for a field
Extracted(name) == fields.d[name].d

\* vlm_result.get(key)
VlmValue(key) == Get(vlm_result, key, None)

DealerCandidates ==
    Candidates(VlmValue("dealer_name"), extract_dealer_candidates(FullText(ocr_result)))

ModelCandidates ==
    Candidates(VlmValue("model_name"), extract_model_candidates(FullText(ocr_result)))

\* the similarity of every candidate with every reference entry
Scores(candidates, master) ==
    {ratio(candidates[i], master[j]) : i \in DOMAIN candidates, j \in DOMAIN master}

\* the highest of the scores, 0 when there is none
BestOf(scores) ==
    IF scores = {} THEN IntNum(0) ELSE CHOOSE s \in scores : \A u \in scores : Leq(u, s)

\* C1: in extract_dealer_name, when some candidate scores 90 or more against
\* the reference list, the value returned is the reference entry of a
\* (candidate, reference) pair of the highest score over all candidates and
\* all entries, and the confidence is that score divided by 100.
C1_DealerBestOverall ==
    pc = "extracted" =>
        LET best == BestOf(Scores(DealerCandidates, dealer_master)) IN
        Leq(IntNum(90), best) =>
            /\ \E i \in DOMAIN DealerCandidates, j \in DOMAIN dealer_master :
                  /\ ratio(DealerCandidates[i], dealer_master[j]) = best
                  /\ Extracted("dealer_name").value = Str(dealer_master[j])
            /\ Extracted("dealer_name").confidence = DivBy(best, 100)

\* C1 (witness): the first candidate clears 90 with one reference entry, and
\* a later candidate scores higher with another entry, which is returned.
C1_LaterCandidateWins ==
    /\ pc = "extracted"
    /\ Len(DealerCandidates) > 1
    /\ dealer_master # <<>>
    /\ Leq(IntNum(90), extractOne(DealerCandidates[1], dealer_master).score)
    /\ Extracted("dealer_name").value # None
    /\ Extracted("dealer_name").value
         # Str(extractOne(DealerCandidates[1], dealer_master).choice)

\* C2: in extract_dealer_name, when every candidate scores below 90 against
\* every reference entry (also when there is no candidate), the value is
\* None, the confidence is 0.0 and the explanation carries the best score seen.
C2_DealerNoMatch ==
    pc = "extracted" =>
        LET best == BestOf(Scores(DealerCandidates, dealer_master)) IN
        Less(best, IntNum(90)) =>
            /\ Extracted("dealer_name").value = None
            /\ Extracted("dealer_name").confidence = IntNum(0)
            /\ Extracted("dealer_name").explanation
                 = Msg("No dealer match found (best: {}%)", <<best>>)

\* C2 (witness): the best score over all candidates lies between 85 and 90,
\* and no dealer is returned.
C2_NearMiss ==
    /\ pc = "extracted"
    /\ Leq(IntNum(85), BestOf(Scores(DealerCandidates, dealer_master)))
    /\ Less(BestOf(Scores(DealerCandidates, dealer_master)), IntNum(90))
    /\ Extracted("dealer_name").value = None

\* a candidate extract_model_name accepts: a member of the reference list, or
\* one of similarity 95 or more with an entry
Acceptable(c, master) ==
    c \in Range(master) \/ \E j \in DOMAIN master : Leq(IntNum(95), ratio(c, master[j]))

\* candidate i is acceptable and none before it is
FirstAcceptable(candidates, master, i) ==
    /\ Acceptable(candidates[i], master)
    /\ \A k \in 1..(i - 1) : ~Acceptable(candidates[k], master)

\* the index of the first acceptable candidate from i on, 0 when there is none
RECURSIVE FirstAcceptableFrom(_, _, _)
FirstAcceptableFrom(candidates, master, i) ==
    IF i > Len(candidates) THEN 0
    ELSE IF Acceptable(candidates[i], master) THEN i
    ELSE FirstAcceptableFrom(candidates, master, i + 1)

\* the result is the one candidate c gives on its own
DeterminedBy(c, master) == fields.d.model_name = model_scan(<<c>>, master, 1, None)

DeterminedByFirst(candidates, master, first) ==
    first # 0 => DeterminedBy(candidates[first], master)

\* C3: extract_model_name is first-acceptable: the result is the one the
\* first acceptable candidate gives on its own, whatever candidates follow it.
C3_ModelFirstAcceptable ==
    pc = "extracted" =>
        DeterminedByFirst(ModelCandidates, asset_master,
                          FirstAcceptableFrom(ModelCandidates, asset_master, 1))

\* C3 (witness): the first acceptable candidate is accepted through
\* similarity, a later candidate is an exact member of the reference list,
\* and the result keeps the confidence of the first.
C3_LaterExactIgnored ==
    /\ pc = "extracted"
    /\ \E i, k \in DOMAIN ModelCandidates :
          /\ i < k
          /\ FirstAcceptable(ModelCandidates, asset_master, i)
          /\ ModelCandidates[i] \notin Range(asset_master)
          /\ ModelCandidates[k] \in Range(asset_master)
    /\ Less(Extracted("model_name").confidence, IntNum(1))

\* candidate c, accepted first, is returned itself at 1.0 when it is a
\* reference entry; otherwise the entry of its best score is returned at
\* score / 100, the score being 95 or more
ExactOrReference(c, master, best) ==
    IF c \in Range(master)
    THEN /\ Extracted("model_name").value = Str(c)
         /\ Extracted("model_name").confidence = IntNum(1)
    ELSE /\ Leq(IntNum(95), best)
         /\ \E j \in DOMAIN master :
               /\ Extracted("model_name").value = Str(master[j])
               /\ ratio(c, master[j]) = best
         /\ Extracted("model_name").value # Str(c)
         /\ Extracted("model_name").confidence = DivBy(best, 100)

ExactOrReferenceOfFirst(candidates, master, first) ==
    first # 0 =>
        ExactOrReference(candidates[first], master,
                         BestOf(Scores(<<candidates[first]>>, master)))

\* C4: in extract_model_name, a first acceptable candidate that is a member
\* of the reference list is returned itself with confidence 1.0; one accepted
\* through similarity gives the reference entry it matches best, not the
\* candidate, with confidence score / 100 and score >= 95.
C4_ModelExactOrReference ==
    pc = "extracted" =>
        ExactOrReferenceOfFirst(ModelCandidates, asset_master,
                                FirstAcceptableFrom(ModelCandidates, asset_master, 1))

\* C4 (witness): a candidate that is no reference entry is accepted at 96
\* and the reference entry is returned.
C4_ReferenceReturned ==
    /\ pc = "extracted"
    /\ ModelCandidates # <<>>
    /\ ModelCandidates[1] = VlmModelC
    /\ Extracted("model_name").value = Str(AssetRef2)
    /\ Extracted("model_name").confidence = Num(96, 100)

\* the numbers the power patterns find in the text
HpTextValues ==
    {IntNum(DigitsToInt(m, 0)) :
        m \in UNION {Range(HpFindAll(FullText(ocr_result), 1, k, <<>>)) :
                        k \in 1..HpPatternCount}}

\* the numbers the cost patterns find in the text
CostTextValues ==
    {PyFloat(Str(Strip(DropCommas(m)))) :
        m \in UNION {Range(CostFindAll(FullText(ocr_result), 1, k, <<>>)) :
                        k \in 1..CostPatternCount}}

\* a result taken from the text: a number the patterns found, within the
\* band, at confidence 0.85; or no value at confidence 0.0
FromText(r, found, low, high) ==
    \/ /\ r.confidence = Num(85, 100)
       /\ r.value \in found
       /\ Leq(IntNum(low), r.value) /\ Leq(r.value, IntNum(high))
    \/ /\ r.confidence = IntNum(0)
       /\ r.value = None

\* the cost half of C5
CostSources ==
    IF VlmValue("asset_cost") # None
    THEN /\ Extracted("asset_cost").value = VlmValue("asset_cost")
         /\ Extracted("asset_cost").confidence = Num(9, 10)
    ELSE FromText(Extracted("asset_cost"), CostTextValues, 300000, 1500000)

\* C5 (as stated): a secondary power or cost value is returned as it is at
\* confidence 0.9 whatever the text holds; without one, a value from the text
\* comes at confidence 0.85 and lies in 20..150 resp. 300000..1500000.
C5_SecondaryValueAsIs ==
    pc = "extracted" =>
        /\ IF VlmValue("horse_power") # None
           THEN /\ Extracted("horse_power").value = VlmValue("horse_power")
                /\ Extracted("horse_power").confidence = Num(9, 10)
           ELSE FromText(Extracted("horse_power"), HpTextValues, 20, 150)
        /\ CostSources

\* C5 (amended): a secondary power value is returned truncated to an integer,
\* a secondary cost value as it is, each at confidence 0.9 whatever the text
\* holds; without one, a value from the text comes at confidence 0.85 and
\* lies in 20..150 resp. 300000..1500000.
C5_SecondaryValueTruncated ==
    pc = "extracted" =>
        /\ IF VlmValue("horse_power") # None
           THEN /\ Extracted("horse_power").value = Trunc(VlmValue("horse_power"))
                /\ Extracted("horse_power").confidence = Num(9, 10)
           ELSE FromText(Extracted("horse_power"), HpTextValues, 20, 150)
        /\ CostSources

\* C5 (witness): the secondary source reports 45.5 for a document whose text
\* reads 35 horse power; 45 is returned at confidence 0.9.
C5_SecondaryOverText ==
    /\ pc = "extracted"
    /\ VlmValue("horse_power") = Num(91, 2)
    /\ IntNum(35) \in HpTextValues
    /\ Extracted("horse_power").value = IntNum(45)
    /\ Extracted("horse_power").confidence = Num(9, 10)

\* the record handed to the Validator for a field, when it is one
HasRecord(name) ==
    /\ pc = "validated"
    /\ name \in DOMAIN fields.d
    /\ fields.d[name].t = "dict"
    /\ Get(fields.d[name].d, "value", None).t \in {"none", "num"}

\* the confidence and the explanation of the output are the ones record r carried
Carried(r, name_confidence, name_explanation) ==
    /\ "confidence" \in DOMAIN r => validated.d[name_confidence] = r.confidence
    /\ "explanation" \in DOMAIN r => validated.d[name_explanation] = r.explanation

WithinBand(v, low, high) == IsNum(v) /\ Leq(IntNum(low), v) /\ Leq(v, IntNum(high))

\* C6: Validator.validate on a horse_power record gives a non-null
\* horse_power exactly when the value of the record is a number within
\* 15..200; otherwise the value is None and the confidence and explanation
\* are the ones the record carried.
C6_ValidatedPower ==
    HasRecord("horse_power") =>
        IF WithinBand(Get(Extracted("horse_power"), "value", None), 15, 200)
        THEN validated.d.horse_power # None
        ELSE /\ validated.d.horse_power = None
             /\ Carried(Extracted("horse_power"), "horse_power_confidence",
                        "horse_power_explanation")

\* C6 (witness): a record of value 200.5 and confidence 0.9 comes out with
\* value None and confidence 0.9.
C6_PowerNulled ==
    /\ HasRecord("horse_power")
    /\ Get(Extracted("horse_power"), "value", None) = Num(401, 2)
    /\ Get(Extracted("horse_power"), "confidence", None) = Num(9, 10)
    /\ validated.d.horse_power = None
    /\ validated.d.horse_power_confidence = Num(9, 10)

\* C7: Validator.validate on an asset_cost record gives a non-null
\* asset_cost exactly when the value of the record lies within
\* 200000..2000000; a value outside gives None.
C7_ValidatedCost ==
    HasRecord("asset_cost") =>
        (validated.d.asset_cost # None
            <=> WithinBand(Get(Extracted("asset_cost"), "value", None), 200000, 2000000))

\* C7 (witness): the value 2000000, the upper end of the band, is kept.
C7_CostAtUpperEnd ==
    /\ HasRecord("asset_cost")
    /\ Get(Extracted("asset_cost"), "value", None) = IntNum(2000000)
    /\ validated.d.asset_cost = IntNum(2000000)

\* the text half of C8: a power value the extractor took from the text is the
\* validated horse_power
TextPowerSurvives ==
    (VlmValue("horse_power") = None /\ Extracted("horse_power").value # None) =>
        validated.d.horse_power = Extracted("horse_power").value

\* C8 (as stated): through extract_horse_power and validate, a power value
\* taken from the text and a secondary power value in [150, 200] both come
\* out unchanged as the validated horse_power.
C8_PowerUnchanged ==
    pc = "validated" =>
        /\ TextPowerSurvives
        /\ WithinBand(VlmValue("horse_power"), 150, 200) =>
               validated.d.horse_power = VlmValue("horse_power")

\* C8 (amended): through extract_horse_power and validate, a power value
\* taken from the text comes out unchanged, and a secondary power value in
\* [150, 200] comes out as its integer part: unchanged when it is an integer.
C8_PowerIntegerPart ==
    pc = "validated" =>
        /\ TextPowerSurvives
        /\ WithinBand(VlmValue("horse_power"), 150, 200) =>
               validated.d.horse_power = Trunc(VlmValue("horse_power"))

\* C8 (witness): the secondary value 150.5 is validated as 150.
C8_SecondaryAboveExtractorBand ==
    /\ pc = "validated"
    /\ VlmValue("horse_power") = Num(301, 2)
    /\ validated.d.horse_power = IntNum(150)

\* the detection payloads handed to the Validator
DetectionKeys == {"dealer_signature", "dealer_stamp"}

\* payload.get('bbox') of the payload handed in for key
BoxIn(key) == Get(fields.d[key].d, "bbox", None)

\* a list of four numbers x, y, w, h with x, y >= 0 and w, h > 0
WellFormedBox(b) ==
    /\ b.t = "list"
    /\ Len(b.l) = 4
    /\ \A i \in 1..4 : IsNum(b.l[i])
    /\ Leq(IntNum(0), b.l[1]) /\ Leq(IntNum(0), b.l[2])
    /\ Less(IntNum(0), b.l[3]) /\ Less(IntNum(0), b.l[4])

\* C9: _validate_bbox returns a box exactly for a list of four numbers whose
\* x and y are non-negative and whose width and height are strictly
\* positive; any other shape or range gives None, whatever the present flag.
C9_BoxAccepted ==
    pc = "validated" =>
        \A key \in DetectionKeys \cap DOMAIN fields.d :
            validated.d[key].d.bbox # None <=> WellFormedBox(BoxIn(key))

\* C9 (witness): the box [10, 10, 0, 5] of a payload with present = True
\* comes out as None.
C9_ZeroWidthNulled ==
    /\ pc = "validated"
    /\ "dealer_signature" \in DOMAIN fields.d
    /\ BoxIn("dealer_signature") = List(<<IntNum(10), IntNum(10), IntNum(0), IntNum(5)>>)
    /\ Get(fields.d.dealer_signature.d, "present", None) = Bool(TRUE)
    /\ validated.d.dealer_signature.d.bbox = None

\* a list of four integers x, y, w, h with x, y >= 0 and w, h > 0
PositiveIntegerBox(b) ==
    /\ WellFormedBox(b)
    /\ \A i \in 1..4 : b.l[i].d = 1

\* C10: every non-null bbox validate produces for dealer_signature or
\* dealer_stamp is a list of four integers x, y, w, h with x >= 0, y >= 0,
\* w > 0 and h > 0.
C10_ValidatedBoxPositive ==
    pc = "validated" =>
        \A key \in DetectionKeys \cap DOMAIN validated.d :
            validated.d[key].d.bbox # None => PositiveIntegerBox(validated.d[key].d.bbox)

\* the two detection entries of the projected record
Projected(key) == output.fields[key]

\* C11: in the validated and in the projected record, a detection payload
\* (dealer_signature, dealer_stamp) with present = False has bbox = None,
\* whatever payload was handed in.
C11_AbsentHasNoBox ==
    pc = "formatted" =>
        \A key \in DetectionKeys :
            /\ validated.d[key].d.present = Bool(FALSE) => validated.d[key].d.bbox = None
            /\ Projected(key).present = Bool(FALSE) => Projected(key).bbox = None

\* the numbers the cost patterns find in the text that lie in 300000..1500000
PlausibleCosts == {v \in CostTextValues : WithinBand(v, 300000, 1500000)}

\* C12: extract_asset_cost without a secondary cost returns the greatest of
\* the matches of all cost patterns whose number lies in 300000..1500000,
\* at confidence 0.85; None at confidence 0.0 when no match lies in that band.
C12_CostIsMaximum ==
    (pc = "extracted" /\ VlmValue("asset_cost") = None) =>
        IF PlausibleCosts # {}
        THEN /\ Extracted("asset_cost").value = BestOf(PlausibleCosts)
             /\ Extracted("asset_cost").confidence = Num(85, 100)
        ELSE /\ Extracted("asset_cost").value = None
             /\ Extracted("asset_cost").confidence = IntNum(0)

\* C12 (witness): the text yields 350000 and then 1200000, and 1200000 is
\* returned.
C12_TwoCandidates ==
    /\ pc = "extracted"
    /\ FullText(ocr_result) = TextOf(<<LineCostB, LineCostC>>)
    /\ PlausibleCosts = {IntNum(350000), IntNum(1200000)}
    /\ Extracted("asset_cost").value = IntNum(1200000)

\* the matches of power pattern k in the text
HpMatches(k) == HpFindAll(FullText(ocr_result), 1, k, <<>>)

\* the number of the first match of power pattern k
HpFirst(k) == IntNum(DigitsToInt(HpMatches(k)[1], 0))

HpPatterns == 1..HpPatternCount

\* pattern k is the first pattern that matches anywhere in the text
FirstMatching(k) == HpMatches(k) # <<>> /\ \A j \in 1..(k - 1) : HpMatches(j) = <<>>

\* C13 (as stated): without a secondary power value, when the matches of the
\* first pattern that matches are all outside 20..150, extract_horse_power
\* returns no value: no later pattern is tried.
C13_FirstPatternDecides ==
    (pc = "extracted" /\ VlmValue("horse_power") = None) =>
        \A k \in HpPatterns :
            (/\ FirstMatching(k)
             /\ \A i \in DOMAIN HpMatches(k) :
                   ~WithinBand(IntNum(DigitsToInt(HpMatches(k)[i], 0)), 20, 150))
            => Extracted("horse_power").value = None

\* the first match of pattern k lies in 20..150
Usable(k) == HpMatches(k) # <<>> /\ WithinBand(HpFirst(k), 20, 150)

\* C13 (amended): without a secondary power value, the patterns are tried in
\* order and of each only the first match is looked at: the first pattern
\* whose first match lies in 20..150 gives the value at confidence 0.85; a
\* pattern whose first match is outside is passed over for the later ones;
\* no value is returned only when no pattern has its first match in 20..150.
C13_FirstUsablePattern ==
    (pc = "extracted" /\ VlmValue("horse_power") = None) =>
        /\ \A k \in HpPatterns :
              (Usable(k) /\ \A j \in 1..(k - 1) : ~Usable(j)) =>
                  /\ Extracted("horse_power").value = HpFirst(k)
                  /\ Extracted("horse_power").confidence = Num(85, 100)
        /\ (\A k \in HpPatterns : ~Usable(k)) =>
              /\ Extracted("horse_power").value = None
              /\ Extracted("horse_power").confidence = IntNum(0)

\* C13 (witness): the first pattern that matches finds only 500, a later
\* pattern finds 30, and 30 is returned.
C13_LaterPatternUsed ==
    /\ pc = "extracted"
    /\ VlmValue("horse_power") = None
    /\ FirstMatching(1)
    /\ HpFirst(1) = IntNum(500)
    /\ ~Usable(1)
    /\ Usable(4)
    /\ Extracted("horse_power").value = IntNum(30)

FieldNames == {"dealer_name", "model_name", "horse_power", "asset_cost"}

\* the fields mapping handed to the Validator holds an entry for name
InHand(name) == fields # None /\ fields.t = "dict" /\ name \in DOMAIN fields.d

\* the record {value: None, confidence: 0.0}, with or without an explanation
NullRecord(p) ==
    /\ p.t = "dict"
    /\ Get(p.d, "value", Absent) = None
    /\ Get(p.d, "confidence", Absent) = IntNum(0)

\* C14: a record {value: None, confidence: 0.0} handed in for any of the four
\* fields goes through Validator.validate and OutputFormatter.format without
\* an exception, and the output has fields.<name> = None and
\* confidence.<name> = 0.0.
C14_NullRoundTrip ==
    \A name \in FieldNames :
        (InHand(name) /\ NullRecord(fields.d[name])) =>
            /\ pc # "failed"
            /\ pc = "formatted" =>
                  /\ output.fields[name] = None
                  /\ output.confidence[name] = IntNum(0)

\* C14 witness: all four fields were handed in as null records and the
\* formatted output holds None and 0.0 for each of them
C14_AllFourNull ==
    /\ pc = "formatted"
    /\ \A name \in FieldNames :
          /\ InHand(name) /\ NullRecord(fields.d[name])
          /\ output.fields[name] = None
          /\ output.confidence[name] = IntNum(0)

\* hp.get('value') or the bare payload handed in for horse_power
HpHandedIn == ValueOf(fields.d["horse_power"])

\* C15: Validator.validate never raises, whatever the shape of the payloads
\* (record, bare value, missing key, a value that is no integer, a detection
\* entry that is no mapping), and a horse_power value that int() does not
\* accept gives a null horse_power.
C15_ValidateNeverRaises ==
    /\ ~IsRaise(validated)
    /\ (pc \in {"validated", "formatted", "failed"} /\ InHand("horse_power")
        /\ IsRaise(PyInt(HpHandedIn)))
           => (validated.t = "dict" /\ validated.d["horse_power"] = None)

\* the detection entries of the mapping handed to format are mappings, as the
\* entries of validated fields are
DetectionsAreMappings ==
    \A key \in DetectionKeys :
        key \in DOMAIN validated.d => validated.d[key].t = "dict"

\* the detection payload format reads for key: the entry, {} when missing
PayloadOf(key) == Get(validated.d, key, Dict(EmptyDict)).d

\* the explanation of a detection entry whose present flag is flag
DetectedWhen(flag) ==
    IF flag = Bool(TRUE) THEN Msg("Detected", <<>>) ELSE Msg("Not detected", <<>>)

WithoutConfidence(name) ==
    /\ pc = "validated"
    /\ InHand(name)
    /\ fields.d[name].t = "dict" => "confidence" \notin DOMAIN fields.d[name].d

\* the validated entries of name are the value at the fallback confidence
AcceptedAt(name, v, fallback) ==
    /\ validated.d[name] = v
    /\ validated.d[name \o "_confidence"] = fallback

\* C17: a text field handed in as a bare value or without a confidence is
\* accepted with that value at confidence 0.5, and a numeric field handed in
\* as a bare value or without a confidence, its value a number the Validator's
\* range admits, is accepted at confidence 0.7.
C17_FallbackConfidence ==
    /\ \A name \in {"dealer_name", "model_name"} :
          WithoutConfidence(name) =>
              AcceptedAt(name, ValueOf(fields.d[name]), Num(1, 2))
    /\ (WithoutConfidence("horse_power") /\ WithinBand(HpHandedIn, HpMin, HpMax)) =>
          AcceptedAt("horse_power", Trunc(HpHandedIn), Num(7, 10))
    /\ (WithoutConfidence("asset_cost")
        /\ WithinBand(ValueOf(fields.d["asset_cost"]), CostMin, CostMax)) =>
          AcceptedAt("asset_cost", ValueOf(fields.d["asset_cost"]), Num(7, 10))

\* a number in [0, 1]
UnitInterval(c) == WithinBand(c, 0, 1)

\* every confidence the fields mapping supplies is a number in [0, 1]
SuppliedConfidencesInUnit ==
    \A name \in DOMAIN fields.d :
        (fields.d[name].t = "dict" /\ "confidence" \in DOMAIN fields.d[name].d)
            => UnitInterval(fields.d[name].d["confidence"])

\* C20: in the record of validate followed by format, every entry of the
\* confidence mapping is a number in [0, 1] when the confidences handed in are
\* in [0, 1] or absent.
C20_ConfidenceInUnit ==
    (pc = "formatted" /\ fields.t = "dict" /\ SuppliedConfidencesInUnit) =>
        \A name \in FieldNames \cup DetectionKeys : UnitInterval(output.confidence[name])

\* C18: through extract_all_fields, validate and format, a text of a dealer
\* line, a line '45 HP' and a line 'Total: Rs. 450000', with an empty
\* secondary source, gives horse_power = 45 and asset_cost = 450000.0, and,
\* when a reference entry scores 90 or more against a cleaned dealer line,
\* dealer_name is the reference entry of the highest score.
C18_Scenario ==
    /\ pc # "failed"
    /\ pc = "formatted" =>
          /\ output.fields.horse_power = IntNum(45)
          /\ output.fields.asset_cost = IntNum(450000)
          /\ Leq(IntNum(90), BestOf(Scores(DealerCandidates, dealer_master))) =>
                \E i \in DOMAIN DealerCandidates, j \in DOMAIN dealer_master :
                    /\ ratio(DealerCandidates[i], dealer_master[j])
                          = BestOf(Scores(DealerCandidates, dealer_master))
                    /\ output.fields.dealer_name = Str(dealer_master[j])

\* C18 witness: the dealer line ' abc-auto ltd. ' scores between 90 and 100
\* against the entry 'abc auto ltd.', which the output names, with 45 and
\* 450000
C18_DealerResolved ==
    /\ pc = "formatted"
    /\ FullText(ocr_result) = TextOf(<<LineDealerA, LineHpA, LineCostA>>)
    /\ dealer_master = <<DealerRef2, DealerRef1>>
    /\ Less(BestOf(Scores(DealerCandidates, dealer_master)), IntNum(100))
    /\ output.fields.dealer_name = Str(DealerRef1)
    /\ output.fields.horse_power = IntNum(45)
    /\ output.fields.asset_cost = IntNum(450000)

\* C19: no step of the pipeline changes dealer_master or asset_master, over
\* any number of documents, and the fields extracted for a document are those
\* of extract_all_fields on that document with the lists as loaded.
C19_MastersReadOnly ==
    /\ [][dealer_master' = dealer_master /\ asset_master' = asset_master]_vars
    /\ [](pc = "extracted" =>
             fields = extract_all_fields(ocr_result, vlm_result, detection_result,
                                         dealer_master, asset_master))

\* C19 witness: a document was matched against a dealer list of two entries,
\* one of which was returned, and the list still holds both
C19_ListIntact ==
    /\ pc = "extracted"
    /\ Len(dealer_master) = 2
    /\ \E j \in DOMAIN dealer_master :
          Extracted("dealer_name").value = Str(dealer_master[j])

\* the detection key of detection_result behind an output entry
UpstreamKey(key) == IF key = "dealer_signature" THEN "signature" ELSE "stamp"

\* neither source holds a candidate for the field
NoCandidate(name) ==
    CASE name = "dealer_name" -> DealerCandidates = <<>>
      [] name = "model_name" -> ModelCandidates = <<>>
      [] name = "horse_power" -> VlmValue("horse_power") = None /\ HpTextValues = {}
      [] name = "asset_cost" -> VlmValue("asset_cost") = None /\ CostTextValues = {}

\* C21: with full_text missing from the text payload, any field keys missing
\* from the secondary payload and signature or stamp missing from the
\* detection payload, extract_all_fields, validate and format complete without
\* raising; a field with no candidate comes out null and a missing detection
\* comes out as present = False, bbox = None.
C21_MissingInput ==
    /\ pc # "failed"
    /\ pc = "formatted" =>
          /\ \A name \in FieldNames : NoCandidate(name) => output.fields[name] = None
          /\ \A key \in DetectionKeys :
                UpstreamKey(key) \notin DOMAIN detection_result =>
                    /\ Projected(key).present = Bool(FALSE)
                    /\ Projected(key).bbox = None

\* C21 witness: a document with no full_text, an empty secondary payload and
\* an empty detection payload was formatted to four null fields and two
\* absent detections
C21_NothingUpstream ==
    /\ pc = "formatted"
    /\ DOMAIN ocr_result = {} /\ DOMAIN vlm_result = {} /\ DOMAIN detection_result = {}
    /\ \A name \in FieldNames : output.fields[name] = None
    /\ \A key \in DetectionKeys :
          Projected(key).present = Bool(FALSE) /\ Projected(key).bbox = None

\* int() resp. float() does not accept the secondary value of the field
Unconvertible(name) ==
    /\ VlmValue(name) # None
    /\ IF name = "horse_power" THEN IsRaise(PyInt(VlmValue(name)))
       ELSE IsRaise(PyFloat(VlmValue(name)))

\* C22: the extractors never raise, for any text and any secondary-source
\* mapping: a secondary power or cost value that cannot be converted is
\* skipped and the field resolves to no candidate.
C22_ExtractorsNeverRaise ==
    /\ ~IsRaise(fields)
    /\ pc = "extracted" =>
          \A name \in {"horse_power", "asset_cost"} :
              Unconvertible(name) => Extracted(name).value = None

\* the validated entries of a field are None at the secondary source's 0.9
NulledAtSecondaryConfidence(name) ==
    /\ validated.d[name] = None
    /\ validated.d[name \o "_confidence"] = Num(9, 10)

\* the secondary source supplies a number for the field
SecondaryNumber(name) == pc = "validated" /\ IsNum(VlmValue(name))

\* C27 (as stated): a secondary power or cost value outside the validator
\* band (15..200 resp. 200000..2000000) gives a final field of None at
\* confidence 0.9, whatever the text holds.
C27_OutsideBandNulled ==
    /\ (SecondaryNumber("horse_power") /\ ~WithinBand(VlmValue("horse_power"), HpMin, HpMax))
          => NulledAtSecondaryConfidence("horse_power")
    /\ (SecondaryNumber("asset_cost") /\ ~WithinBand(VlmValue("asset_cost"), CostMin, CostMax))
          => NulledAtSecondaryConfidence("asset_cost")

\* C27 (amended): a secondary power value whose integer part is outside
\* 15..200, or a secondary cost value outside 200000..2000000, gives a final
\* field of None at confidence 0.9, whatever the text holds; a power value
\* between 200 and 201 is truncated to 200 and kept.
C27_TruncatedOutsideBandNulled ==
    /\ (SecondaryNumber("horse_power")
        /\ ~WithinBand(Trunc(VlmValue("horse_power")), HpMin, HpMax))
          => NulledAtSecondaryConfidence("horse_power")
    /\ (SecondaryNumber("horse_power") /\ VlmValue("horse_power") = Num(401, 2))
          => validated.d["horse_power"] = IntNum(200)
    /\ (SecondaryNumber("asset_cost") /\ ~WithinBand(VlmValue("asset_cost"), CostMin, CostMax))
          => NulledAtSecondaryConfidence("asset_cost")

\* C27 witness: the secondary source reports 250 while the text holds
\* '45 HP'; the validated horse_power is None at 0.9
C27_TextNotUsed ==
    /\ SecondaryNumber("horse_power")
    /\ VlmValue("horse_power") = IntNum(250)
    /\ IntNum(45) \in HpTextValues
    /\ NulledAtSecondaryConfidence("horse_power")

\* the line holds a brand name
BrandLine(line) == \E k \in DOMAIN Brands : Contains(Lower(line), Chars(Brands[k]))

\* the line, stripped, holds a dealer keyword and cleans to more than 5 characters
DealerLine(line) ==
    /\ \E k \in DOMAIN DealerKeywords : Contains(Lower(Strip(line)), Chars(DealerKeywords[k]))
    /\ Len(Collapse(SubPunct(Strip(line)))) > 5

\* the model candidates of the lines, in the order of the lines
ModelLinesInOrder(lines) ==
    Take([i \in DOMAIN SelectSeq(lines, BrandLine) |-> Strip(SelectSeq(lines, BrandLine)[i])],
         10)

\* the dealer candidates of the lines, in the order of the lines
DealerLinesInOrder(lines) ==
    Take([i \in DOMAIN SelectSeq(lines, DealerLine) |->
             Collapse(SubPunct(Strip(SelectSeq(lines, DealerLine)[i])))],
         5)

\* the candidate list is the secondary value, when it is not empty, and then
\* the text candidates
SecondaryThenText(candidates, secondary, text_candidates) ==
    IF secondary # None /\ secondary # Str(<<>>)
    THEN candidates # <<>> /\ Head(candidates) = secondary.s
         /\ Tail(candidates) = text_candidates
    ELSE candidates = text_candidates

\* C23: for dealer_name and model_name the candidate list is the secondary
\* candidate (when present and not empty) followed by the text candidates in
\* document order, and in extract_model_name an acceptable secondary candidate
\* decides the result whatever the text candidates are.
C23_SecondaryFirst ==
    pc = "extracted" =>
        /\ SecondaryThenText(DealerCandidates, VlmValue("dealer_name"),
                             DealerLinesInOrder(SplitLines(FullText(ocr_result))))
        /\ SecondaryThenText(ModelCandidates, VlmValue("model_name"),
                             ModelLinesInOrder(SplitLines(FullText(ocr_result))))
        /\ (Truthy(VlmValue("model_name"))
            /\ Acceptable(VlmValue("model_name").s, asset_master))
              => DeterminedBy(VlmValue("model_name").s, asset_master)

\* C23 witness: the secondary model candidate is accepted through similarity
\* while a text candidate is an entry of the reference list; the result is
\* the one of the secondary candidate
C23_SecondaryBeatsExactText ==
    /\ pc = "extracted"
    /\ Truthy(VlmValue("model_name"))
    /\ VlmValue("model_name").s \notin Range(asset_master)
    /\ Acceptable(VlmValue("model_name").s, asset_master)
    /\ \E i \in 2..Len(ModelCandidates) : ModelCandidates[i] \in Range(asset_master)
    /\ DeterminedBy(VlmValue("model_name").s, asset_master)
    /\ Less(Extracted("model_name").confidence, IntNum(1))

\* a null value, or the str of an entry of the reference list
NullOrEntry(v, master) == v = None \/ \E j \in DOMAIN master : v = Str(master[j])

\* C24: in the output of extract_all_fields, validate and format, a dealer_name
\* that is not null is an entry of dealer_master and a model_name that is not
\* null is an entry of asset_master.
C24_NamesFromReference ==
    pc = "formatted" =>
        /\ NullOrEntry(output.fields.dealer_name, dealer_master)
        /\ NullOrEntry(output.fields.model_name, asset_master)

\* C24 witness: the output names a dealer that is an entry of the list and
\* differs from every candidate of the document
C24_EntryNotCandidate ==
    /\ pc = "formatted"
    /\ output.fields.dealer_name # None
    /\ NullOrEntry(output.fields.dealer_name, dealer_master)
    /\ \A i \in DOMAIN DealerCandidates : output.fields.dealer_name # Str(DealerCandidates[i])

\* the validated entries of a text field are the record the extractor returned
Unaltered(name) ==
    /\ validated.d[name] = Extracted(name).value
    /\ validated.d[name \o "_confidence"] = Extracted(name).confidence
    /\ validated.d[name \o "_explanation"] = Extracted(name).explanation

\* the extractor accepted a name for the field, at the given confidence or more
AcceptedName(name, threshold) ==
    /\ pc = "validated"
    /\ Extracted(name).value # None
    /\ Leq(threshold, Extracted(name).confidence)

\* C25: a dealer_name accepted by the extractor (confidence 0.90 or more) or a
\* model_name accepted by it (0.95 or more) goes through Validator.validate
\* with min_confidence 0.5 unaltered: value, confidence and explanation are
\* those of the extractor.
C25_AcceptedNameUnaltered ==
    /\ AcceptedName("dealer_name", Num(90, 100)) => Unaltered("dealer_name")
    /\ AcceptedName("model_name", Num(95, 100)) => Unaltered("model_name")
    /\ pc = "validated" =>
          /\ Extracted("dealer_name").value # None
                => Leq(Num(90, 100), Extracted("dealer_name").confidence)
          /\ Extracted("model_name").value # None
                => Leq(Num(95, 100), Extracted("model_name").confidence)

\* C25 witness: a dealer accepted at a confidence below 1 is in the validated
\* record with that confidence and the extractor's explanation
C25_FuzzyDealerKept ==
    /\ AcceptedName("dealer_name", Num(90, 100))
    /\ Less(Extracted("dealer_name").confidence, IntNum(1))
    /\ Unaltered("dealer_name")
    /\ validated.d["dealer_name"] \in {Str(dealer_master[j]) : j \in DOMAIN dealer_master}

\* the extractor's record for the field holds no value, at confidence 0.0
NoValue(name) == Extracted(name).value = None /\ Extracted(name).confidence = IntNum(0)

\* C30: with an empty reference list extract_dealer_name resp.
\* extract_model_name returns value None at confidence 0.0 for every candidate
\* list, and does not raise.
C30_EmptyReferenceList ==
    /\ (dealer_master = <<>> \/ asset_master = <<>>) => ~IsRaise(fields)
    /\ pc = "extracted" =>
          /\ dealer_master = <<>> => NoValue("dealer_name")
          /\ asset_master = <<>> => NoValue("model_name")

\* C30 witness: both lists are empty, the document has a dealer candidate and
\* a secondary dealer name, and no dealer or model was returned
C30_CandidatesButNoList ==
    /\ pc = "extracted"
    /\ dealer_master = <<>> /\ asset_master = <<>>
    /\ Len(DealerCandidates) > 1
    /\ Truthy(VlmValue("dealer_name"))
    /\ NoValue("dealer_name") /\ NoValue("model_name")

\* the payload handed in for a text field is a record whose confidence is a
\* number below min_confidence, or is missing
LowConfidenceRecord(name) ==
    /\ pc = "validated"
    /\ InHand(name)
    /\ fields.d[name].t = "dict"
    /\ "confidence" \in DOMAIN fields.d[name].d =>
          /\ IsNum(fields.d[name].d["confidence"])
          /\ Less(fields.d[name].d["confidence"], min_confidence)

\* C26: Validator.validate on a dealer_name or model_name record whose
\* confidence is below min_confidence or missing writes value None, even when
\* the record holds a value, the record's confidence (0.0 when missing) and
\* the record's explanation ('Low confidence' when missing).
C26_LowConfidenceNulled ==
    \A name \in {"dealer_name", "model_name"} :
        LowConfidenceRecord(name) =>
            /\ validated.d[name] = None
            /\ validated.d[name \o "_confidence"]
                  = Get(fields.d[name].d, "confidence", IntNum(0))
            /\ validated.d[name \o "_explanation"]
                  = Get(fields.d[name].d, "explanation", Msg("Low confidence", <<>>))

\* C26 witness: a dealer_name record with a value and confidence 0.49, and no
\* explanation, was validated to None at 0.49 with 'Low confidence'
C26_ValueDropped ==
    /\ LowConfidenceRecord("dealer_name")
    /\ Get(fields.d["dealer_name"].d, "value", None) = Str(DealerRef1)
    /\ Get(fields.d["dealer_name"].d, "confidence", None) = Num(49, 100)
    /\ validated.d["dealer_name"] = None
    /\ validated.d["dealer_name_confidence"] = Num(49, 100)
    /\ validated.d["dealer_name_explanation"] = Msg("Low confidence", <<>>)

\* the detection payload handed in for key
PayloadIn(key) == Get(fields.d, key, Dict(EmptyDict)).d

\* C28: Validator.validate leaves the present flag and the confidence of each
\* detection payload as received (False and 0.0 when missing) and changes at
\* most bbox: a payload with present = True and an invalid box comes out with
\* present = True and bbox = None.
C28_DetectionFrame ==
    (pc = "validated" /\ \A key \in DetectionKeys : Get(fields.d, key, Dict(EmptyDict)).t = "dict")
        => \A key \in DetectionKeys :
              /\ DOMAIN validated.d[key].d = {"present", "bbox", "confidence"}
              /\ validated.d[key].d.present = Get(PayloadIn(key), "present", Bool(FALSE))
              /\ validated.d[key].d.confidence = Get(PayloadIn(key), "confidence", IntNum(0))
              /\ ~WellFormedBox(Get(PayloadIn(key), "bbox", None))
                    => validated.d[key].d.bbox = None

\* C28 witness: a signature payload with present = True and a box of width 0
\* was validated to present = True, bbox = None, with its confidence
C28_PresentWithoutBox ==
    /\ pc = "validated"
    /\ "dealer_signature" \in DOMAIN fields.d
    /\ Get(PayloadIn("dealer_signature"), "present", None) = Bool(TRUE)
    /\ Get(PayloadIn("dealer_signature"), "bbox", None)
          = List(<<IntNum(10), IntNum(10), IntNum(0), IntNum(5)>>)
    /\ validated.d["dealer_signature"].d.present = Bool(TRUE)
    /\ validated.d["dealer_signature"].d.bbox = None
    /\ validated.d["dealer_signature"].d.confidence = Num(9, 10)

\* C29: process_batch runs to completion without raising: a document that
\* raises is caught and counted as failed, the remaining documents are still
\* processed, and the summary is reached also when the directory holds no
\* document or every document failed.
C29_BatchCompletes ==
    /\ batch.pc # "raised"
    /\ batch.pc \in {"loop", "returned"} =>
          /\ batch.i <= batch.image_files
          /\ batch.results <= batch.i
    /\ batch.pc = "returned" => batch.i = batch.image_files

====
